---- MODULE Spec2Model ----
(***************************************************************************)
(* The Simaerep time-series chart of gsm.simaerep.viz: the data reshaper   *)
(* (processData), the selection controller (selectSite, selectCountry,     *)
(* updateSelectedGroupIDs, updateConfig), the render that rebuilds the     *)
(* selectors, the overview chart and the detail panels, and the deferred   *)
(* follow-ups queued with requestAnimationFrame.                           *)
(*                                                                         *)
(* Numbers with a fractional part are kept in tenths: opacity 0.2 is 2,    *)
(* border width 1.5 is 15.                                                 *)
(***************************************************************************)
EXTENDS Integers, Sequences, FiniteSets, TLC

VARIABLES
    siteList,         \* the SiteList chart of the page, if one was constructed
    rawData,          \* this.rawData: the tabular inputs
    groupMetadata,    \* this.groupMetadata: Map GroupID -> attributes, or null
    config,           \* this.config: the display options render() reads from it
    dataConfig,       \* this.data.config
    thresholds,       \* this.data._thresholds_
    selectedCountry,  \* this.selectedCountry
    countryToSites,   \* this.countryToSites (undefined until addSelectors sets it)
    siteSelector,     \* this.siteSelector as shown in the container
    countrySelector,  \* this.countrySelector as shown in the container
    layout,           \* what the last render() laid out
    chartDatasets,    \* this.chartInstance.data.datasets (overview chart)
    sitePlots,        \* the detail panels of this.rightPanel, each with its series
    highlighted,      \* the detail panels carrying the highlight outline
    tooltip,          \* the external tooltip node of the left panel
    container,        \* this.container: holds the rendered tree, or is empty
    chartInstance,    \* this.chartInstance: the overview chart-engine handle
    sitePlotCharts,   \* this.sitePlotCharts: the chart-engine handles of the panels
    released,         \* teardown counts of the handles the instance let go of
    pending,          \* callbacks queued with requestAnimationFrame, oldest first
    lastCall          \* the last handler that ran and what it did, in order

vars == <<siteList, rawData, groupMetadata, config, dataConfig, thresholds, selectedCountry,
          countryToSites, siteSelector, countrySelector, layout, chartDatasets,
          sitePlots, highlighted, tooltip, container, chartInstance, sitePlotCharts,
          released, pending, lastCall>>

(***************************************************************************)
(* Bounds of the model.                                                    *)
(***************************************************************************)
\* A handler is called only while fewer than MaxPending callbacks wait for the
\* next animation frame.
MaxPending == 1
\* A user makes at most MaxRapid selections before the next animation frame.
MaxRapid == 2
\* The longest list of group-metadata rows the indexer is tried on
MaxRows == 3
\* The most candidates one hover event carries
MaxItems == 2
\* The most candidates the overlap detection is given when their order matters
MaxCandidates == 3

(***************************************************************************)
(* JavaScript values.  A selection value is a string or an array of        *)
(* strings; 'None' is the string the code compares with.  A host can also  *)
(* pass null or a number; str is what a template literal makes of a value. *)
(***************************************************************************)
Str(s) == [kind |-> "string", str |-> s, arr |-> <<>>]
Arr(a) == [kind |-> "array", str |-> "", arr |-> a]
NoneVal == Str("None")
Undefined == [kind |-> "undefined", str |-> "", arr |-> <<>>]
Null == [kind |-> "null", str |-> "null", arr |-> <<>>]
\* The number whose decimal rendering is digits
NumVal(digits) == [kind |-> "number", str |-> digits, arr |-> <<>>]

IsArray(v) == v.kind = "array"
\* JavaScript truthiness of a value: arrays (also empty ones), non-empty
\* strings and numbers other than 0 are truthy; undefined, null and '' are not.
Truthy(v) == \/ v.kind = "array"
             \/ (v.kind = "string" /\ v.str # "")
             \/ (v.kind = "number" /\ v.str # "0")

\* Array.prototype.includes
Includes(a, s) == \E i \in 1..Len(a) : a[i] = s

\* { ...a, ...b } on objects given as functions from keys to values
Spread(a, b) == [k \in (DOMAIN a) \cup (DOMAIN b) |->
                    IF k \in DOMAIN b THEN b[k] ELSE a[k]]

\* An object is a function from its keys to their values; {} has no key.
EmptyObject == [k \in {} |-> TRUE]
Has(obj, k) == k \in DOMAIN obj

\* Array.prototype.filter
Filter(s, Keep(_)) == SelectSeq(s, Keep)

\* The distinct elements of a sequence, in order of first appearance
Distinct(s) ==
    LET F[i \in 0..Len(s)] ==
            IF i = 0 THEN <<>>
            ELSE IF Includes(F[i-1], s[i]) THEN F[i-1] ELSE Append(F[i-1], s[i])
    IN  F[Len(s)]

\* s.map(f)
Map(s, f(_)) == [i \in 1..Len(s) |-> f(s[i])]

(***************************************************************************)
(* Colours.  A hex colour is the sequence of its hex digits (#3182BD is    *)
(* <<3,1,8,2,11,13>>, #CCC is <<12,12,12>>); the empty sequence stands for *)
(* an absent Color field.                                                  *)
(***************************************************************************)
DefaultUnflaggedColor == <<12, 12, 12, 12, 12, 12>>
DefaultFlaggedColor == <<3, 1, 8, 2, 11, 13>>
StudyColor == <<0, 0, 0, 0, 0, 0>>
PatientColor == [r |-> 140, g |-> 140, b |-> 140, a |-> 10]

OpacityDimmed == 2
OpacityFull == 10
WidthUnflagged == 10
WidthFlagged == 15
WidthSelected == 30
WidthStudy == 20
WidthPatient == 10
WidthSiteLine == 20

OrderStudy == 0
OrderFlaggedSelected == 1
OrderFlaggedUnselected == 2
OrderUnflaggedSelected == 3
OrderUnflaggedUnselected == 5
OrderPanelStudy == 1
OrderPanelSite == 2
OrderPanelPatient == 3

hexToRgba(hex, opacity) ==
    LET h == IF Len(hex) = 3
             THEN <<hex[1], hex[1], hex[2], hex[2], hex[3], hex[3]>>
             ELSE hex
    IN  [r |-> h[1] * 16 + h[2], g |-> h[3] * 16 + h[4], b |-> h[5] * 16 + h[6],
         a |-> opacity]

(***************************************************************************)
(* The tabular inputs.  A series row is [GroupID, x, y] (x = Denominator,  *)
(* y = cum_mean_dev_event, already parsed); a label row is                 *)
(* [GroupID, Flag, Score, Color]; a visit row is [SubjectID, GroupID, x, y].*)
(***************************************************************************)
Row(g, x, y) == [GroupID |-> g, x |-> x, y |-> y]
\* A Flag or Score field: a number, a numeric string, or absent.
Num(n) == [kind |-> "number", n |-> n]
NumStr(n) == [kind |-> "string", n |-> n]
Absent == [kind |-> "undefined", n |-> 0]
\* A string that does not start with a number, such as 'n/a'
Text == [kind |-> "text", n |-> 0]
Label(g, flag, score, color) == [GroupID |-> g, Flag |-> flag, Score |-> score, Color |-> color]
Visit(s, g, x, y) == [SubjectID |-> s, GroupID |-> g, x |-> x, y |-> y]

StudyRows == << [x |-> 1, y |-> 0], [x |-> 2, y |-> 1] >>
VisitRows == << Visit("001", "120", 1, 0), Visit("001", "120", 2, 1),
                Visit("002", "120", 1, 0), Visit("003", "10", 1, 0) >>

\* One flagged and one unflagged site, the unflagged one with flag status 0.
DataTwoSites ==
    [df_mean_study |-> StudyRows,
     df_mean_group_flagged |-> << Row("120", 1, 3), Row("120", 2, 6) >>,
     df_mean_group_not_flagged |-> << Row("10", 1, 0), Row("10", 2, 1) >>,
     df_label_sites |-> << Label("10", Num(0), Num(5), <<>>),
                           Label("120", Num(2), Num(-3), DefaultFlaggedColor) >>,
     df_visit |-> VisitRows]

\* Four sites; site 10 is in the unflagged table but carries a non-zero flag,
\* site 33 has no score, site 45 is unflagged with flag status 0.
DataFourSites ==
    [df_mean_study |-> StudyRows,
     df_mean_group_flagged |-> << Row("120", 1, 3), Row("33", 1, 2), Row("120", 2, 6) >>,
     df_mean_group_not_flagged |-> << Row("10", 1, 0), Row("45", 1, 1), Row("10", 2, 1) >>,
     df_label_sites |-> << Label("10", NumStr(-2), NumStr(4), <<3, 1, 8>>),
                           Label("45", Num(0), Num(1), <<>>),
                           Label("120", NumStr(2), NumStr(-3), DefaultFlaggedColor),
                           Label("33", Num(1), Absent, <<>>) >>,
     df_visit |-> VisitRows]

\* The same without sub-entity visits: no detail panels.
DataNoVisits == [DataTwoSites EXCEPT !.df_visit = <<>>]

\* Every tabular input empty.
DataEmpty ==
    [df_mean_study |-> <<>>, df_mean_group_flagged |-> <<>>,
     df_mean_group_not_flagged |-> <<>>, df_label_sites |-> <<>>, df_visit |-> <<>>]

\* What the caller passes when it has no data: nothing at all, or an object
\* with none of the tables.
UndefinedData == [undefined |-> TRUE]
DataNoTables == EmptyObject
\* this.rawData = data || {}
DataOrEmpty(data) == IF Has(data, "undefined") THEN EmptyObject ELSE data

\* Site 10 carries the flag status zero as the string "0".
DataStringFlag ==
    [DataTwoSites EXCEPT
        !.df_label_sites = << Label("10", NumStr(0), Num(5), <<>>),
                              Label("120", NumStr(2), Num(-3), DefaultFlaggedColor) >>]

\* Rows with absent fields: a visit row of site 120 without SubjectID, a label
\* row without Flag, Score and Color.
DataAbsentFields ==
    [DataTwoSites EXCEPT
        !.df_label_sites = << Label("10", Absent, Absent, <<>>),
                              Label("120", Num(2), Num(-3), DefaultFlaggedColor) >>,
        !.df_visit = << Visit("001", "120", 1, 0),
                        [GroupID |-> "120", x |-> 2, y |-> 1],
                        Visit("003", "10", 1, 0) >>]

\* Three flagged sites whose scores are numbers, numeric strings, text or
\* absent, in every combination
ScoreValues == {Num(-3), NumStr(4), Absent, Text}

DataScores(a, b, c) ==
    [DataFourSites EXCEPT
        !.df_label_sites = << Label("10", Num(1), a, <<>>),
                              Label("45", Num(0), Num(1), <<>>),
                              Label("120", Num(2), b, DefaultFlaggedColor),
                              Label("33", Num(1), c, <<>>) >>]

ScoreCases == {DataScores(a, b, c) : a, b, c \in ScoreValues}

DataCases == {DataTwoSites, DataFourSites, DataNoVisits, DataEmpty, DataNoTables,
              DataStringFlag, DataAbsentFields} \cup ScoreCases

\* this.rawData.df_... || []: a table of the data, empty when it is missing
df_mean_study(data) == IF Has(data, "df_mean_study") THEN data["df_mean_study"] ELSE <<>>
df_mean_group_flagged(data) ==
    IF Has(data, "df_mean_group_flagged") THEN data["df_mean_group_flagged"] ELSE <<>>
df_mean_group_not_flagged(data) ==
    IF Has(data, "df_mean_group_not_flagged") THEN data["df_mean_group_not_flagged"] ELSE <<>>
df_label_sites(data) == IF Has(data, "df_label_sites") THEN data["df_label_sites"] ELSE <<>>
df_visit(data) == IF Has(data, "df_visit") THEN data["df_visit"] ELSE <<>>

\* Site IDs the callers pass: the sites of the data and one that is in no table.
UnknownSite == "99"
\* An ID with a double quote in it: `[data-group-id="${id}"]` is then no valid
\* selector and querySelector throws a SyntaxError.
QuoteSite == "9\"9"
BreaksSelector(id) == id = QuoteSite
SiteIDs == {"10", "120", "33", "45", UnknownSite, QuoteSite}

(***************************************************************************)
(* Group metadata as structureGroupMetadata returns it: null, or a Map     *)
(* GroupID -> attribute object, kept as its entries in insertion order.    *)
(***************************************************************************)
NullMetadata == [isNull |-> TRUE, entries |-> <<>>]

\* A row of config.groupMetadata in Param/Value format
MetaRow(g, param, value, level) ==
    [GroupID |-> g, Param |-> param, Value |-> value, GroupLevel |-> level]
\* config.groupMetadata as the host passes it: a list of rows, or undefined,
\* null or something that is not a list
Rows(rows) == [kind |-> "array", rows |-> rows]
RowsUndefined == [kind |-> "undefined", rows |-> <<>>]
RowsNull == [kind |-> "null", rows |-> <<>>]
RowsNotAList == [kind |-> "object", rows |-> <<>>]

\* The reducer of one group: acc[cur.Param] = cur.Value row after row, so the
\* last row of a Param gives its value
GroupAttrs(group) ==
    [p \in {group[i].Param : i \in 1..Len(group)} |->
        group[CHOOSE i \in 1..Len(group) :
                /\ group[i].Param = p
                /\ \A j \in (i+1)..Len(group) : group[j].Param # p].Value]

\* The keys of the outer Map of rollup: the levels in order of first appearance
LevelKeys(rows) == Distinct([i \in 1..Len(rows) |-> rows[i].GroupLevel])

\* An inner Map that takes the rows of every level
StructuredAcrossLevels(rows, level) ==
    LET ids == Distinct([i \in 1..Len(rows) |-> rows[i].GroupID])
    IN  [i \in 1..Len(ids) |->
            [GroupID |-> ids[i],
             attrs |-> GroupAttrs(Filter(rows, LAMBDA d : d.GroupID = ids[i]))]]

\* The inner Map of rollup for one level: GroupID -> reduced rows of the group
StructuredAt(rows, level) ==
    LET mine == Filter(rows, LAMBDA d : d.GroupLevel = level)
        ids == Distinct([i \in 1..Len(mine) |-> mine[i].GroupID])
    IN  [i \in 1..Len(ids) |->
            [GroupID |-> ids[i],
             attrs |-> GroupAttrs(Filter(mine, LAMBDA d : d.GroupID = ids[i]))]]

\* config.GroupLevel || 'Site'
RequestedLevel(cfg) ==
    IF Has(cfg, "GroupLevel") /\ cfg.GroupLevel # "" THEN cfg.GroupLevel ELSE "Site"

\* An indexer that also warns about an empty list of rows
structureWarnsOnEmpty(metadataRows, cfg) ==
    IF metadataRows.kind # "array" THEN [value |-> NullMetadata, warned |-> FALSE]
    ELSE IF Includes(LevelKeys(metadataRows.rows), RequestedLevel(cfg))
    THEN [value |-> [isNull |-> FALSE,
                     entries |-> StructuredAt(metadataRows.rows, RequestedLevel(cfg))],
          warned |-> FALSE]
    ELSE [value |-> NullMetadata, warned |-> TRUE]

\* structureGroupMetadata(groupMetadata, config): the returned Map (or null) and whether
\* console.warn was called
structureGroupMetadata(metadataRows, cfg) ==
    IF metadataRows.kind \in {"null", "undefined"}
    THEN [value |-> NullMetadata, warned |-> FALSE]
    ELSE IF metadataRows.kind # "array" \/ Len(metadataRows.rows) = 0
    THEN [value |-> NullMetadata, warned |-> FALSE]
    ELSE IF Includes(LevelKeys(metadataRows.rows), RequestedLevel(cfg))
    THEN [value |-> [isNull |-> FALSE,
                     entries |-> StructuredAt(metadataRows.rows, RequestedLevel(cfg))],
          warned |-> FALSE]
    ELSE [value |-> NullMetadata, warned |-> TRUE]

\* this.groupMetadata?.get(groupID): the attribute object, or undefined
MetadataGet(gm, groupID) ==
    LET hits == {i \in 1..Len(gm.entries) : gm.entries[i].GroupID = groupID}
    IN  IF gm.isNull \/ hits = {} THEN [found |-> FALSE, attrs |-> EmptyObject]
        ELSE [found |-> TRUE, attrs |-> gm.entries[CHOOSE i \in hits : TRUE].attrs]

\* Site-level metadata of four sites, three of them with a country
SiteRows == << MetaRow("120", "Country", "USA", "Site"),
               MetaRow("10", "Country", "USA", "Site"),
               MetaRow("33", "Country", "Germany", "Site"),
               MetaRow("45", "Region", "EU", "Site") >>
SiteMetadata == structureGroupMetadata(Rows(SiteRows), EmptyObject).value

\* Rows the indexer is tried on: two attributes of site 120, a second value
\* for one of them, site 10, and a row of entity 120 at the level Country
RowPool == { MetaRow("120", "Country", "USA", "Site"),
             MetaRow("120", "Region", "NA", "Site"),
             MetaRow("120", "Country", "Germany", "Site"),
             MetaRow("10", "Country", "USA", "Site"),
             MetaRow("120", "Region", "EU", "Country") }
\* Every list of up to MaxRows different rows of the pool
RowLists ==
    {rows \in UNION {[1..n -> RowPool] : n \in 0..MaxRows} :
        \A i, j \in 1..Len(rows) : i # j => rows[i] # rows[j]}
MetadataArgs == {Rows(rows) : rows \in RowLists} \cup {RowsUndefined, RowsNull, RowsNotAList}
\* The configuration's GroupLevel: a level of the rows, one that is not, or ''
LevelArgs == {"Site", "Country", "Study", ""}

\* The same with a Site-level row for the ID the study series carries
SiteAndStudyRows == SiteRows \o <<MetaRow("study", "Country", "USA", "Site")>>

MetadataCases ==
    {NullMetadata, SiteMetadata, structureGroupMetadata(Rows(SiteAndStudyRows), EmptyObject).value}
    \cup {structureGroupMetadata(gm, [GroupLevel |-> level]).value :
            gm \in MetadataArgs, level \in LevelArgs}
Countries == {"USA", "Germany", "France"}

(***************************************************************************)
(* processData: the series of the overview chart.                          *)
(***************************************************************************)
Point(row) == [x |-> row.x, y |-> row.y]

\* groupByGroupID: the GroupIDs of a table in order of first appearance (nothing
\* below reads the relative position of two site series), and the points of one.
GroupKeys(rows) == Distinct([i \in 1..Len(rows) |-> rows[i].GroupID])
GroupPoints(rows, g) == Map(Filter(rows, LAMBDA r : r.GroupID = g), Point)

\* siteMetadata[groupID]?.Color || fallback; the last label row of a GroupID wins
LabelColor(labels, g, fallback) ==
    LET idx == {i \in 1..Len(labels) : labels[i].GroupID = g}
    IN  IF idx = {} THEN fallback
        ELSE LET c == labels[CHOOSE i \in idx : \A j \in idx : j <= i].Color
             IN  IF c = <<>> THEN fallback ELSE c

hasSelection(sel) ==
    /\ Truthy(sel)
    /\ sel # NoneVal
    /\ (IsArray(sel) => Len(sel.arr) > 0)

\* isSelected that compares a list selection by its first element only
isSelectedFirstOnly(sel, g) ==
    IF IsArray(sel) THEN Len(sel.arr) > 0 /\ sel.arr[1] = g ELSE sel = Str(g)

isSelected(sel, g) ==
    IF IsArray(sel) THEN Includes(sel.arr, g) ELSE sel = Str(g)

Opacity(sel, g) == IF hasSelection(sel) /\ ~isSelected(sel, g) THEN OpacityDimmed ELSE OpacityFull

Dataset(g, siteType, dataType, subjectID, points, color, width, order) ==
    [groupID |-> g, siteType |-> siteType, dataType |-> dataType, subjectID |-> subjectID,
     data |-> points, borderColor |-> color, borderWidth |-> width, order |-> order]

\* The unflagged order values the wrong way round
UnflaggedOrderSwapped(selected) ==
    IF selected THEN OrderUnflaggedUnselected ELSE OrderUnflaggedSelected

UnflaggedOrder(selected) ==
    IF selected THEN OrderUnflaggedSelected ELSE OrderUnflaggedUnselected

FlaggedOrder(selected) ==
    IF selected THEN OrderFlaggedSelected ELSE OrderFlaggedUnselected

UnflaggedDataset(data, sel, g) ==
    Dataset(g, "unflagged", "", "",
            GroupPoints(df_mean_group_not_flagged(data), g),
            hexToRgba(LabelColor(df_label_sites(data), g, DefaultUnflaggedColor), Opacity(sel, g)),
            IF isSelected(sel, g) THEN WidthSelected ELSE WidthUnflagged,
            UnflaggedOrder(isSelected(sel, g)))

FlaggedDataset(data, sel, g) ==
    Dataset(g, "flagged", "", "",
            GroupPoints(df_mean_group_flagged(data), g),
            hexToRgba(LabelColor(df_label_sites(data), g, DefaultFlaggedColor), Opacity(sel, g)),
            IF isSelected(sel, g) THEN WidthSelected ELSE WidthFlagged,
            FlaggedOrder(isSelected(sel, g)))

\* A study series pushed two draw-order steps back
StudyDatasetBehind(data, order) ==
    Dataset("study", "study", "", "", Map(df_mean_study(data), Point),
            hexToRgba(StudyColor, OpacityFull), WidthStudy, order + 2)

\* '#000000' is written as the fully opaque colour it is.
StudyDataset(data, order) ==
    Dataset("study", "study", "", "", Map(df_mean_study(data), Point),
            hexToRgba(StudyColor, OpacityFull), WidthStudy, order)

\* A study series pushed whether or not there are study rows
StudySeriesAlways(data) == <<StudyDataset(data, OrderStudy)>>

\* if (studyData.length > 0) datasets.push(study series)
StudySeries(data) ==
    IF Len(df_mean_study(data)) > 0 THEN <<StudyDataset(data, OrderStudy)>> ELSE <<>>

processData(data, sel) ==
    LET unflagged == GroupKeys(df_mean_group_not_flagged(data))
        flagged == GroupKeys(df_mean_group_flagged(data))
    IN  [i \in 1..Len(unflagged) |-> UnflaggedDataset(data, sel, unflagged[i])]
        \o [i \in 1..Len(flagged) |-> FlaggedDataset(data, sel, flagged[i])]
        \o StudySeries(data)

(***************************************************************************)
(* renderSitePlots: one detail panel per label row whose Flag is neither   *)
(* the number 0 nor absent, in ascending order of parseFloat(Score) || 0.  *)
(***************************************************************************)
\* site.Flag !== 0 && site.Flag !== undefined
IsFlaggedLabel(site) == ~(site.Flag.kind = "number" /\ site.Flag.n = 0)
                        /\ site.Flag.kind # "undefined"

\* parseFloat of a field: its number, or NaN for text and for an absent field
parseFloat(v) ==
    IF v.kind \in {"number", "string"} THEN [nan |-> FALSE, n |-> v.n]
    ELSE [nan |-> TRUE, n |-> 0]

\* A score that puts the sites without a number before all others
ScoreMissingLowest(site) ==
    IF parseFloat(site.Score).nan THEN -100 ELSE parseFloat(site.Score).n

\* parseFloat(Score) || 0
ScoreOf(site) ==
    IF parseFloat(site.Score).nan THEN 0 ELSE parseFloat(site.Score).n

\* Array.prototype.sort with (a, b) => score(a) - score(b): stable insertion
RECURSIVE InsertByScore(_, _)
InsertByScore(sorted, site) ==
    IF sorted = <<>> THEN <<site>>
    ELSE IF ScoreOf(sorted[Len(sorted)]) <= ScoreOf(site) THEN Append(sorted, site)
    ELSE Append(InsertByScore(SubSeq(sorted, 1, Len(sorted) - 1), site), sorted[Len(sorted)])

SortByScore(sites) ==
    LET F[i \in 0..Len(sites)] ==
            IF i = 0 THEN <<>> ELSE InsertByScore(F[i-1], sites[i])
    IN  F[Len(sites)]

processPatientData(data, g) ==
    LET siteVisits == Filter(df_visit(data), LAMBDA v : v.GroupID = g)
        subjects == Distinct([i \in 1..Len(siteVisits) |-> siteVisits[i].SubjectID])
    IN  [i \in 1..Len(subjects) |->
            Dataset("", "", "patient", subjects[i],
                    Map(Filter(siteVisits, LAMBDA v : v.SubjectID = subjects[i]), Point),
                    PatientColor, WidthPatient, OrderPanelPatient)]

SitePlotDatasets(data, site) ==
    processPatientData(data, site.GroupID)
    \o << Dataset(site.GroupID, "flagged", "", "",
                  GroupPoints(df_mean_group_flagged(data), site.GroupID),
                  hexToRgba(IF site.Color = <<>> THEN DefaultFlaggedColor ELSE site.Color,
                            OpacityFull),
                  WidthSiteLine, OrderPanelSite),
          StudyDataset(data, OrderPanelStudy) >>

\* visit.SubjectID.toString() is a TypeError on a visit row without SubjectID
processPatientDataThrows(data, g) ==
    \E i \in 1..Len(df_visit(data)) :
        df_visit(data)[i].GroupID = g /\ ~Has(df_visit(data)[i], "SubjectID")

\* The label rows that get a panel, in the order of their panels
FlaggedSites(data) == SortByScore(Filter(df_label_sites(data), IsFlaggedLabel))

\* How many panels renderSitePlots completes: all, or those before the first
\* site whose visits make processPatientData throw
PanelsCompleted(data) ==
    LET flaggedSites == FlaggedSites(data)
        failing == {i \in 1..Len(flaggedSites) :
                        processPatientDataThrows(data, flaggedSites[i].GroupID)}
    IN  IF failing = {} THEN Len(flaggedSites)
        ELSE (CHOOSE i \in failing : \A j \in failing : i <= j) - 1

renderSitePlotsThrows(data) == PanelsCompleted(data) < Len(FlaggedSites(data))

renderSitePlots(data) ==
    LET flaggedSites == FlaggedSites(data)
    IN  [i \in 1..PanelsCompleted(data) |->
            [groupID |-> flaggedSites[i].GroupID,
             datasets |-> SitePlotDatasets(data, flaggedSites[i])]]

(***************************************************************************)
(* Configuration.  An object is a function from its keys to their values.  *)
(***************************************************************************)

HeightAuto == [auto |-> TRUE, px |-> 0]
HeightPx(n) == [auto |-> FALSE, px |-> n]

\* A thresholds argument: an object (told apart by id) or undefined.
ThresholdsObject(n) == [kind |-> "object", id |-> n]
ThresholdsUndefined == [kind |-> "undefined", id |-> 0]

\* The KRI metadata fields of this.config and their defaults
KriFields == {"Metric", "Numerator", "Denominator", "Score", "ExpectedNumerator",
              "Abbreviation"}
KriDefaults == [Metric |-> "Adverse Event Rate", Numerator |-> "Adverse Events",
                Denominator |-> "Visits", Score |-> "Over/Under-Reporting Probability",
                ExpectedNumerator |-> "Delta Expected AEs", Abbreviation |-> "AE"]

\* const metric = config.metric || {}
MetricOf(userConfig) == IF Has(userConfig, "metric") THEN userConfig.metric ELSE EmptyObject

\* a[k] || b[k] || otherwise on string fields: '' and an absent field are falsy
FirstTruthy(a, b, k, otherwise) ==
    IF Has(a, k) /\ a[k] # "" THEN a[k]
    ELSE IF Has(b, k) /\ b[k] # "" THEN b[k]
    ELSE otherwise

\* metric.X || config.X || default for every KRI field, then ...config
KriConfig(userConfig) ==
    Spread([k \in KriFields |->
                FirstTruthy(MetricOf(userConfig), userConfig, k, KriDefaults[k])],
           [k \in KriFields \cap DOMAIN userConfig |-> userConfig[k]])

\* The constructor's this.config: defaults, then ...config
ConstructConfig(userConfig) ==
    Spread(
      Spread(KriConfig(userConfig),
        [selectedGroupIDs |->
            IF Has(userConfig, "selectedGroupIDs") /\ Truthy(userConfig.selectedGroupIDs)
            THEN userConfig.selectedGroupIDs ELSE NoneVal,
         height |-> IF Has(userConfig, "height") THEN userConfig.height ELSE HeightAuto,
         showGroupSelector |->
            ~(Has(userConfig, "showGroupSelector") /\ userConfig.showGroupSelector = FALSE),
         showCountrySelector |->
            ~(Has(userConfig, "showCountrySelector") /\ userConfig.showCountrySelector = FALSE),
         showRightPanel |->
            ~(Has(userConfig, "showRightPanel") /\ userConfig.showRightPanel = FALSE),
         GroupLevel |-> FirstTruthy(userConfig, MetricOf(userConfig), "GroupLevel", "Site")]),
        userConfig)

\* The display options of this.config.  (this.config.selectedGroupIDs follows
\* this.data.config only while both name the same object, and no method reads it.)
DisplayKeys == {"height", "showGroupSelector", "showCountrySelector", "showRightPanel"}
DisplayOptions(obj) == [k \in DisplayKeys |-> obj[k]]

(***************************************************************************)
(* render(): selectors, layout, overview chart, detail panels.             *)
(***************************************************************************)
\* The option values of the site dropdown: 'None' and every GroupID of the
\* label, flagged and unflagged tables.
SiteOptions(data) ==
    {"None"} \cup {df_label_sites(data)[i].GroupID : i \in 1..Len(df_label_sites(data))}
             \cup {df_mean_group_flagged(data)[i].GroupID :
                        i \in 1..Len(df_mean_group_flagged(data))}
             \cup {df_mean_group_not_flagged(data)[i].GroupID :
                        i \in 1..Len(df_mean_group_not_flagged(data))}

\* select.value = v: a <select> shows v when v is one of its options and shows
\* nothing ('') otherwise.
SelectValue(options, v) == IF v \in options THEN v ELSE ""

\* metadata.Country of one Map entry, '' when absent
CountryOf(entry) == IF Has(entry.attrs, "Country") THEN entry.attrs.Country ELSE ""

\* countryToSites as addSelectors builds it from the group metadata
BuildCountryToSites(gm) ==
    LET withCountry == IF gm.isNull THEN <<>>
                       ELSE Filter(gm.entries, LAMBDA e : CountryOf(e) # "")
        names == {CountryOf(withCountry[i]) : i \in 1..Len(withCountry)}
    IN  [defined |-> TRUE,
         map |-> [c \in names |->
                    LET mine == Filter(withCountry, LAMBDA e : CountryOf(e) = c)
                    IN  [i \in 1..Len(mine) |-> mine[i].GroupID]]]

\* The lookup without its "|| []" fallback
SitesInCountryNoFallback(cts, country) ==
    IF country = "None" THEN NoneVal
    ELSE IF country \in DOMAIN cts.map THEN Arr(cts.map[country]) ELSE Undefined

\* country === 'None' ? 'None' : (this.countryToSites[country] || [])
SitesInCountry(cts, country) ==
    IF country = "None" THEN NoneVal
    ELSE IF country \in DOMAIN cts.map THEN Arr(cts.map[country]) ELSE Arr(<<>>)

UndefinedCountryToSites == [defined |-> FALSE, map |-> EmptyObject]

(***************************************************************************)
(* Inputs of the handlers.                                                 *)
(***************************************************************************)
\* What the site dropdown or a caller passes to selectSite
SelectSiteArgs == {"None", "120", "10"}
\* What the country dropdown or a caller passes to selectCountry
SelectCountryArgs == {"None", "USA", "France"}
\* What the host passes to updateSelectedGroupIDs
SelectionValues ==
    {NoneVal, Str("120"), Str(UnknownSite), Arr(<<"10", "120">>), Arr(<<>>)}
\* What the host passes to updateConfig: patches that carry a selection ...
SelectionPatches ==
    {EmptyObject, [selectedGroupIDs |-> Str("10")], [selectedGroupIDs |-> NoneVal]}
\* ... and patches that change display options
DisplayPatches ==
    {EmptyObject,
     [selectedGroupIDs |-> Str("120")],
     [showRightPanel |-> FALSE, showCountrySelector |-> FALSE],
     [showGroupSelector |-> FALSE, height |-> HeightPx(300)],
     [showGroupSelector |-> TRUE, showCountrySelector |-> TRUE, showRightPanel |-> TRUE,
      height |-> HeightAuto]}
ThresholdsArgs == {ThresholdsObject(1), ThresholdsUndefined}
\* Selection values of a host that does not know the data: IDs of no site,
\* lists of them, and values that are neither a string nor a list
ShapeValues ==
    {Null, NumVal("120"), NumVal("7"), Str(UnknownSite), Str(QuoteSite),
     Arr(<<UnknownSite, "98">>), Arr(<<>>)}

\* The constructor's arguments: data, config.groupMetadata, the rest of config
Constructions ==
    { <<DataTwoSites, Rows(SiteRows), EmptyObject>>,
      <<DataFourSites, Rows(SiteRows), [selectedGroupIDs |-> Str("120")]>>,
      <<DataTwoSites, RowsUndefined, EmptyObject>>,
      <<DataNoVisits, Rows(SiteRows), [showCountrySelector |-> FALSE, height |-> HeightPx(400)]>>,
      <<DataFourSites, Rows(SiteRows),
        [showGroupSelector |-> FALSE, showCountrySelector |-> FALSE,
         showRightPanel |-> FALSE]>>,
      <<DataEmpty, RowsUndefined, EmptyObject>> }

\* Constructor arguments with missing tables and with odd rows
DataConstructions ==
    { <<UndefinedData, RowsUndefined, EmptyObject>>,
      <<DataNoTables, Rows(SiteRows), EmptyObject>>,
      <<DataStringFlag, Rows(SiteRows), EmptyObject>>,
      <<DataAbsentFields, Rows(SiteRows), EmptyObject>>,
      <<DataAbsentFields, Rows(SiteRows), [showRightPanel |-> FALSE]>> }

\* Constructor arguments of the charts that are hovered
TooltipConstructions ==
    { <<DataTwoSites, Rows(SiteAndStudyRows), EmptyObject>>,
      <<DataFourSites, Rows(SiteRows), [selectedGroupIDs |-> Str("120")]>>,
      <<DataTwoSites, RowsUndefined, [showRightPanel |-> FALSE]>>,
      <<DataEmpty, RowsUndefined, EmptyObject>> }

\* Constructor arguments with every list of metadata rows and every level
MetadataConstructions ==
    {<<DataTwoSites, gm, [GroupLevel |-> level]>> : gm \in MetadataArgs, level \in LevelArgs}
    \cup {<<DataTwoSites, gm, EmptyObject>> : gm \in MetadataArgs}

\* A field that is absent, empty or set to v
Optional(k, v) == {EmptyObject, [f \in {k} |-> ""], [f \in {k} |-> v]}

\* Constructor arguments with a KRI field in the metric object, in the
\* configuration, in both and in neither; with two fields of the metric
\* object; and with the level in the metric object
KriConfigs ==
    UNION {{Spread(IF m = EmptyObject THEN EmptyObject ELSE [metric |-> m], c) :
                m \in Optional(k, "of metric"), c \in Optional(k, "of config")} :
           k \in KriFields}
    \cup {[metric |-> EmptyObject],
          [metric |-> [Metric |-> "of metric", Numerator |-> "of metric"],
           Numerator |-> "of config"],
          [metric |-> [GroupLevel |-> "Country"]],
          [metric |-> [GroupLevel |-> "Country"], GroupLevel |-> "Study"],
          [metric |-> [GroupLevel |-> "Country"], GroupLevel |-> ""]}
KriConstructions == {<<DataTwoSites, Rows(SiteRows), c>> : c \in KriConfigs}

\* Constructor arguments whose flagged sites carry every kind of score
ScoreConstructions == {<<data, Rows(SiteRows), EmptyObject>> : data \in ScoreCases}

\* Every selection value the inputs above can put into this.data.config
Selections ==
    {Str(id) : id \in SelectSiteArgs} \cup SelectionValues
    \cup {p.selectedGroupIDs : p \in {q \in SelectionPatches \cup DisplayPatches :
                                            Has(q, "selectedGroupIDs")}}
    \cup ShapeValues
    \cup {ConstructConfig(c[3]).selectedGroupIDs : c \in Constructions \cup DataConstructions}
    \cup {SitesInCountry(BuildCountryToSites(gm), country) :
            gm \in MetadataCases, country \in SelectCountryArgs}

\* processData and renderSitePlots tabulated over the data sets and selections
\* of the model, so that each is computed once
OverviewSeries == [data \in DataCases, sel \in Selections |-> processData(data, sel)]
DetailPanels == [data \in DataCases |-> renderSitePlots(data)]
PanelsThrow == [data \in DataCases |-> renderSitePlotsThrows(data)]
\* likewise the dropdown options and the country map
SiteOptionsOf == [data \in DataCases |-> SiteOptions(data)]
CountryMapOf == [gm \in MetadataCases |-> BuildCountryToSites(gm)]

NoSelector == [present |-> FALSE, value |-> ""]
Selector(v) == [present |-> TRUE, value |-> v]

\* The site dropdown render() builds (addSelectors, site part)
RenderSiteSelector(cfg, data, sel) ==
    IF ~cfg.showGroupSelector THEN NoSelector
    ELSE Selector(SelectValue(SiteOptionsOf[data],
                    IF IsArray(sel) \/ sel = NoneVal THEN "None"
                    ELSE IF sel.kind \in {"string", "number"} THEN sel.str ELSE ""))

\* The country dropdown render() builds (addSelectors, country part)
RenderCountrySelector(cfg, gm, country) ==
    IF ~cfg.showCountrySelector THEN NoSelector
    ELSE Selector(IF country # "" /\ country # "None"
                  THEN SelectValue({"None"} \cup DOMAIN CountryMapOf[gm].map, country)
                  ELSE "None")

SelectorHeight == 40

\* The sizes and panels render() lays out, from the configuration cfg it reads
Layout(cfg, data) ==
    LET selectors == cfg.showGroupSelector \/ cfg.showCountrySelector
        selectorHeight == IF selectors THEN SelectorHeight ELSE 0
    IN  [siteSelector |-> cfg.showGroupSelector,
         countrySelector |-> cfg.showCountrySelector,
         availableHeight |-> IF cfg.height.auto THEN HeightAuto
                             ELSE HeightPx(cfg.height.px - selectorHeight),
         rightPanel |-> cfg.showRightPanel /\ Len(df_visit(data)) > 0,
         classes |-> {"gsm-widget", "simaerep-chart"},
         canvases |-> 1]

\* The configuration object render() reads for selectors, sizes and panels:
\* this.config (conf), not this.data.config (dconf)
RenderConfig(conf, dconf) == conf

\* No tooltip node.  A node has its opacity, the blocks of its content, its
\* left and top in pixels and the panel it hangs in (0 is the left panel);
\* groupID, x and y are those of the first candidate it shows.
NoTooltip == [present |-> FALSE, opacity |-> 0, groupID |-> "", x |-> 0, y |-> 0,
              blocks |-> <<>>, left |-> 0, top |-> 0, panel |-> 0]

\* render(), with conf = this.config, dconf = this.data.config, country =
\* this.selectedCountry and cts = this.countryToSites as they are when render()
\* is called: what it leaves in the container and on the instance.  The panels
\* and the left panel are new nodes: no outline, no tooltip node.
Rendered(conf, dconf, country, cts) ==
    LET cfg == RenderConfig(conf, dconf)
        sel == dconf.selectedGroupIDs
        lay == Layout(cfg, rawData)
    IN  [layout |-> lay,
         siteSelector |-> RenderSiteSelector(cfg, rawData, sel),
         countrySelector |-> RenderCountrySelector(cfg, groupMetadata, country),
         countryToSites |-> IF cfg.showCountrySelector
                            THEN CountryMapOf[groupMetadata]
                            ELSE cts,
         chartDatasets |-> OverviewSeries[rawData, sel],
         sitePlots |-> IF lay.rightPanel THEN DetailPanels[rawData] ELSE <<>>,
         highlighted |-> {},
         tooltip |-> NoTooltip,
         threw |-> lay.rightPanel /\ PanelsThrow[rawData]]

(***************************************************************************)
(* Chart-engine handles.  A handle counts the calls of its destroy().      *)
(***************************************************************************)
\* new Chart(canvas, ...)
NewChart == [torn |-> 0]
\* A destroy() that is never called
TeardownForgotten(h) == h
\* chart.destroy()
Teardown(h) == [h EXCEPT !.torn = @ + 1]
\* The teardown counts of handles as they are when the instance drops them
Counts(handles) == {handles[i].torn : i \in 1..Len(handles)}

\* Panel handles dropped without a call of their destroy()
DestroyPanelsSkipped(handles) == handles

\* sitePlotCharts.forEach(item => item.chart.destroy())
DestroyPanels(handles) == [i \in 1..Len(handles) |-> Teardown(handles[i])]

\* A render that tears the overview handle down and keeps it
RenderHandlesKeepsOverview(plots) ==
    /\ released' = released \cup Counts(DestroyPanels(sitePlotCharts))
    /\ chartInstance' = Teardown(chartInstance)
    /\ sitePlotCharts' = [i \in 1..Len(plots) |-> NewChart]

\* render(): "Destroy existing chart instances", then one new handle for the
\* overview chart and one per detail panel
RenderHandles(plots) ==
    /\ released' = released \cup {Teardown(chartInstance).torn}
                             \cup Counts(DestroyPanels(sitePlotCharts))
    /\ chartInstance' = NewChart
    /\ sitePlotCharts' = [i \in 1..Len(plots) |-> NewChart]

Render(conf, dconf, country) ==
    LET r == Rendered(conf, dconf, country, countryToSites)
    IN  /\ container' = "rendered"
        /\ RenderHandles(r.sitePlots)
        /\ layout' = r.layout
        /\ siteSelector' = r.siteSelector
        /\ countrySelector' = r.countrySelector
        /\ countryToSites' = r.countryToSites
        /\ chartDatasets' = r.chartDatasets
        /\ sitePlots' = r.sitePlots
        /\ highlighted' = r.highlighted
        /\ tooltip' = r.tooltip

(***************************************************************************)
(* What a handler did, in order: lastCall.log is a sequence of events.     *)
(***************************************************************************)
Ev(name, val) == [ev |-> name, val |-> val]
Call(op, arg, skip, threw, log) ==
    [op |-> op, arg |-> arg, skip |-> skip, threw |-> threw, log |-> log, events |-> <<>>,
     again |-> FALSE]
\* The call repeats the call before it: the same handler with the same argument
Repeating(call, before) ==
    [call EXCEPT !.again = (before.op = call.op /\ before.arg = call.arg)]

\* new CustomEvent(type, { detail }): detail.groupID for 'site-selected',
\* detail.country and detail.groupIDs for 'country-selected'
CustomEvent(type, groupID, country, groupIDs) ==
    [type |-> type, groupID |-> groupID, country |-> country, groupIDs |-> groupIDs]
\* this.container.dispatchEvent(event) during a call
Dispatching(call, event) == [call EXCEPT !.events = Append(@, event)]

\* A callback waiting for the next animation frame; it closes over groupID.
\* kind names the handler whose closure it is.
FollowUp(kind, groupID) == [kind |-> kind, groupID |-> groupID]
CallbackKinds == {"selectSite", "update", "updateConfig"}

(***************************************************************************)
(* The follow-up effects.  fx = [highlighted, tooltip, log, threw, usable] *)
(* is threaded through the calls of one animation frame; usable says       *)
(* whether the overview handle still serves its data.  A target is a       *)
(* JavaScript value; Null stands for "no target".                          *)
(***************************************************************************)
PanelIDs(plots) == {plots[i].groupID : i \in 1..Len(plots)}

\* The first id of the array, whether or not it has a panel
FirstOfList(ids, plots) == IF ids = <<>> THEN "" ELSE ids[1]

\* querySelector(`[data-group-id="${id}"]`) over the ids of an array, first hit
\* ('' when there is none)
FirstWithPlot(ids, plots) ==
    LET hits == {i \in 1..Len(ids) : ids[i] \in PanelIDs(plots)}
    IN  IF hits = {} THEN "" ELSE ids[CHOOSE i \in hits : \A j \in hits : i <= j]

\* The loop over the ids of an array meets an id that breaks its selector
\* before it meets one that has a panel
SelectorThrows(ids, plots) ==
    \E i \in 1..Len(ids) :
        /\ BreaksSelector(ids[i])
        /\ \A j \in 1..(i-1) : ids[j] \notin PanelIDs(plots)

findFirstFlaggedSite(groupIDs, lay, plots) ==
    IF ~lay.rightPanel \/ ~IsArray(groupIDs) THEN Null
    ELSE LET id == FirstWithPlot(groupIDs.arr, plots)
         IN  IF id = "" THEN Null ELSE Str(id)

\* A highlight that leaves the outlines of the other panels in place
highlightKeepsOthers(fx, target, lay, plots) ==
    IF ~lay.rightPanel THEN [fx EXCEPT !.log = Append(@, Ev("highlight", target))]
    ELSE [fx EXCEPT !.highlighted = IF target.str \in PanelIDs(plots)
                                    THEN @ \cup {target.str} ELSE @,
                    !.log = Append(@, Ev("highlight", target))]

\* Every outline is cleared first; the selector built from the target then
\* either throws, or finds the one panel to outline, or finds none.
highlightSitePlot(fx, target, lay, plots) ==
    IF ~lay.rightPanel THEN [fx EXCEPT !.log = Append(@, Ev("highlight", target))]
    ELSE IF BreaksSelector(target.str)
    THEN [fx EXCEPT !.highlighted = {},
                    !.threw = TRUE,
                    !.log = @ \o <<Ev("highlight", target), Ev("throw", target)>>]
    ELSE [fx EXCEPT !.highlighted = IF target.str \in PanelIDs(plots) THEN {target.str} ELSE {},
                    !.log = Append(@, Ev("highlight", target))]

scrollToSitePlot(fx, groupID, lay, plots) ==
    LET called == [fx EXCEPT !.log = Append(@, Ev("scroll", groupID))]
        thrown == [called EXCEPT !.threw = TRUE, !.log = Append(@, Ev("throw", groupID))]
        targetGroupID == IF IsArray(groupID) THEN FirstWithPlot(groupID.arr, plots)
                         ELSE groupID.str
    IN  IF ~lay.rightPanel \/ ~Truthy(groupID) \/ groupID = NoneVal THEN called
        ELSE IF IsArray(groupID) /\ SelectorThrows(groupID.arr, plots) THEN thrown
        ELSE IF targetGroupID = "" THEN called
        ELSE IF BreaksSelector(targetGroupID) THEN thrown
        ELSE IF targetGroupID \in PanelIDs(plots)
             THEN [called EXCEPT !.log = Append(@, Ev("scrollIntoView", Str(targetGroupID)))]
             ELSE called

(***************************************************************************)
(* The external tooltip.  A chart is named by its index: 0 is the overview *)
(* chart, i > 0 the chart of detail panel i.  Coordinates of candidates    *)
(* (item.parsed) are in tenths of a data unit, positions in pixels.        *)
(***************************************************************************)
\* const threshold = 0.5, in tenths
Threshold == 5
\* let left = tooltip.caretX + 10
CaretOffset == 10
Tenths(n) == 10 * n
Abs(n) == IF n < 0 THEN -n ELSE n

\* The widths the layout gives the canvases: the overview canvas beside
\* detail panels and alone, and the canvas of a detail panel
CanvasWidthBeside == 400
CanvasWidthAlone == 800
PanelCanvasWidth == 200
\* this.canvas.offsetWidth
CanvasWidth(lay) == IF lay.rightPanel THEN CanvasWidthBeside ELSE CanvasWidthAlone

\* Overlap with a strict comparison
detectOverlapStrict(tooltipItems) ==
    /\ Len(tooltipItems) > 1
    /\ \A i \in 2..Len(tooltipItems) :
          /\ Abs(tooltipItems[i].parsed.x - tooltipItems[1].parsed.x) < Threshold
          /\ Abs(tooltipItems[i].parsed.y - tooltipItems[1].parsed.y) < Threshold

detectOverlappingPoints(tooltipItems) ==
    IF Len(tooltipItems) <= 1 THEN FALSE
    ELSE \A i \in 2..Len(tooltipItems) :
            ~(\/ Abs(tooltipItems[i].parsed.x - tooltipItems[1].parsed.x) > Threshold
              \/ Abs(tooltipItems[i].parsed.y - tooltipItems[1].parsed.y) > Threshold)

\* this.siteMetadata[groupID]: the last label row of the entity, if any
SiteInfo(groupID) ==
    LET labels == df_label_sites(rawData)
        hits == {i \in 1..Len(labels) : labels[i].GroupID = groupID}
    IN  IF hits = {} THEN [found |-> FALSE, row |-> EmptyObject]
        ELSE [found |-> TRUE, row |-> labels[CHOOSE i \in hits : \A j \in hits : j <= i]]

\* buildTitleHtml: swatch colour and title
buildTitleHtml(dataset) ==
    LET metadata == MetadataGet(groupMetadata, dataset.groupID)
    IN  [swatch |-> dataset.borderColor,
         title |-> IF dataset.dataType = "patient" THEN <<"Patient", dataset.subjectID>>
                   ELSE IF dataset.siteType = "study" THEN <<"Study Mean">>
                   ELSE <<"Site", dataset.groupID>>
                        \o (IF metadata.found /\ Has(metadata.attrs, "InvestigatorLastName")
                                THEN <<metadata.attrs.InvestigatorLastName>> ELSE <<>>)
                        \o (IF metadata.found /\ Has(metadata.attrs, "ParticipantCount")
                                THEN <<metadata.attrs.ParticipantCount>> ELSE <<>>)]

\* buildBasicMetricsHtml: the names of its lines
buildBasicMetricsHtml(dataset) ==
    LET siteInfo == SiteInfo(dataset.groupID)
    IN  IF dataset.dataType = "patient" THEN <<"Numerator", "Denominator">>
        ELSE <<"Numerator", "Denominator">>
             \o (IF siteInfo.found /\ dataset.siteType # "study"
                 THEN (IF siteInfo.row.Score.kind # "undefined" THEN <<"Score">> ELSE <<>>)
                      \o (IF Has(siteInfo.row, "ExpectedNumerator") THEN <<"Delta">> ELSE <<>>)
                      \o (IF siteInfo.row.Flag.kind # "undefined" THEN <<"Flag">> ELSE <<>>)
                 ELSE <<>>)

\* The attributes buildExtraInfoHtml prints, in its order
ExtraInfoFields == <<"studyid", "invid", "InvestigatorLastName", "Status", "City", "State",
                     "Country", "ActiveParticipantCount", "SiteCount">>

\* buildExtraInfoHtml: its lines; none means no block
buildExtraInfoHtml(groupID) ==
    LET metadata == MetadataGet(groupMetadata, groupID)
    IN  IF ~metadata.found THEN <<>>
        ELSE LET given == Filter(ExtraInfoFields, LAMBDA k : Has(metadata.attrs, k))
             IN  [i \in 1..Len(given) |-> <<given[i], metadata.attrs[given[i]]>>]

\* A block of an overlap that carries the extra information as well
CompactBlockWithExtra(dataset) ==
    [title |-> buildTitleHtml(dataset), metrics |-> buildBasicMetricsHtml(dataset),
     extra |-> buildExtraInfoHtml(dataset.groupID), compact |-> TRUE]

\* One block per candidate of an overlap: title and basic metrics
CompactBlock(dataset) ==
    [title |-> buildTitleHtml(dataset), metrics |-> buildBasicMetricsHtml(dataset),
     extra |-> <<>>, compact |-> TRUE]

\* if (dataset.siteType !== 'study' && dataset.dataType !== 'patient')
ExtraInfo(dataset) ==
    IF dataset.siteType # "study" /\ dataset.dataType # "patient"
    THEN buildExtraInfoHtml(dataset.groupID) ELSE <<>>

\* The block of a single or non-overlapping candidate
FullBlock(dataset) ==
    [title |-> buildTitleHtml(dataset), metrics |-> buildBasicMetricsHtml(dataset),
     extra |-> ExtraInfo(dataset), compact |-> FALSE]

\* tooltipEl.offsetWidth and offsetHeight, as the layout derives them from
\* the content
OffsetWidth(blocks) ==
    IF \E i \in 1..Len(blocks) : blocks[i].extra # <<>> THEN 180 ELSE 120
OffsetHeight(blocks) ==
    60 * Len(blocks) + (IF \E i \in 1..Len(blocks) : blocks[i].extra # <<>> THEN 40 ELSE 0)

\* getOrCreateTooltip: the node of the left panel, created when there is none
getOrCreateTooltip(tip) ==
    IF tip.present THEN tip ELSE [NoTooltip EXCEPT !.present = TRUE, !.opacity = 1]

\* The flip measured against a width that is never reached
PlaceWithoutFlip(caretX, tooltipWidth, canvasWidth) == caretX + CaretOffset

\* left = caretX + 10, or caretX - tooltipWidth - 10 past the canvas's right edge
PlaceLeft(caretX, tooltipWidth, canvasWidth) ==
    IF caretX + CaretOffset + tooltipWidth > canvasWidth
    THEN caretX - tooltipWidth - CaretOffset
    ELSE caretX + CaretOffset

\* top = caretY - tooltipHeight / 2, not above 0
PlaceTop(caretY, tooltipHeight) ==
    IF caretY - tooltipHeight \div 2 < 0 THEN 0 ELSE caretY - tooltipHeight \div 2

\* externalTooltipHandler(context) with context.tooltip = e and the datasets
\* of context.chart: the tooltip node it leaves
externalTooltipHandler(tip, datasets, e) ==
    LET tooltipEl == getOrCreateTooltip(tip)
        tooltipItems == e.dataPoints
        first == datasets[tooltipItems[1].datasetIndex]
        blocks == IF detectOverlappingPoints(tooltipItems) /\ Len(tooltipItems) > 1
                  THEN [i \in 1..Len(tooltipItems) |->
                            CompactBlock(datasets[tooltipItems[i].datasetIndex])]
                  ELSE <<FullBlock(first)>>
    IN  IF e.opacity = 0 \/ tooltipItems = <<>> THEN [tooltipEl EXCEPT !.opacity = 0]
        ELSE [tooltipEl EXCEPT
                !.opacity = 1,
                !.groupID = first.groupID,
                !.x = tooltipItems[1].parsed.x,
                !.y = tooltipItems[1].parsed.y,
                !.blocks = blocks,
                !.left = PlaceLeft(e.caretX, OffsetWidth(blocks), CanvasWidth(layout)),
                !.top = PlaceTop(e.caretY, OffsetHeight(blocks))]

\* xScale.getPixelForValue, yScale.getPixelForValue of the overview chart
PixelX(x) == (x * CanvasWidth(layout)) \div 4
PixelY(y) == 300 - 20 * y

\* The index of the first point with the highest x, 0 when there is no point
MaxXIndex(data) ==
    IF data = <<>> THEN 0
    ELSE CHOOSE j \in 1..Len(data) :
            /\ \A k \in 1..Len(data) : data[k].x <= data[j].x
            /\ \A k \in 1..(j-1) : data[k].x < data[j].x

\* datasets[i].groupID === groupID: only a string equals the groupID of a series
showTooltipForSite(fx, target, datasets) ==
    LET called == [fx EXCEPT !.log = Append(@, Ev("tooltip", target))]
        found == {i \in 1..Len(datasets) :
                    target.kind = "string" /\ datasets[i].groupID = target.str}
    IN  IF ~Truthy(target) \/ target = NoneVal THEN called
        ELSE IF ~fx.usable
        THEN [called EXCEPT !.threw = TRUE, !.log = Append(@, Ev("throw", target))]
        ELSE IF found = {} THEN called
        ELSE LET ds == datasets[CHOOSE i \in found : \A j \in found : i <= j]
                 j == MaxXIndex(ds.data)
             IN  IF j = 0 THEN called
                 ELSE [called EXCEPT
                        !.tooltip = externalTooltipHandler(fx.tooltip, datasets,
                                        [chart |-> 0, opacity |-> 1,
                                         caretX |-> PixelX(ds.data[j].x),
                                         caretY |-> PixelY(ds.data[j].y),
                                         dataPoints |->
                                            <<[datasetIndex |-> CHOOSE i \in found :
                                                                    \A k \in found : i <= k,
                                               parsed |-> [x |-> Tenths(ds.data[j].x),
                                                           y |-> Tenths(ds.data[j].y)]]>>]),
                        !.log = Append(@, Ev("tooltipShown", target))]

\* The three effects for one target, in the order both callbacks use; a throw
\* of the first ends the callback.
Interact(fx, target, groupID, lay, plots, datasets) ==
    LET lit == highlightSitePlot(fx, target, lay, plots)
    IN  IF lit.log[Len(lit.log)].ev = "throw" THEN lit
        ELSE showTooltipForSite(scrollToSitePlot(lit, groupID, lay, plots), target, datasets)

\* The callback selectSite queues
SelectSiteFollowUp(fx, groupID, lay, plots, datasets) ==
    IF Truthy(groupID) /\ groupID # NoneVal
    THEN Interact(fx, groupID, groupID, lay, plots, datasets)
    ELSE fx

\* The callback updateSelectedGroupIDs and updateConfig queue
UpdateFollowUp(fx, groupID, lay, plots, datasets) ==
    LET targetSite == IF IsArray(groupID) THEN findFirstFlaggedSite(groupID, lay, plots)
                      ELSE groupID
    IN  IF IsArray(groupID) /\ lay.rightPanel /\ SelectorThrows(groupID.arr, plots)
        THEN [fx EXCEPT !.threw = TRUE, !.log = Append(@, Ev("throw", groupID))]
        ELSE IF Truthy(targetSite)
        THEN Interact(fx, targetSite, groupID, lay, plots, datasets)
        ELSE fx

RunFollowUp(fx, f, lay, plots, datasets) ==
    LET started == [fx EXCEPT !.log = Append(@, Ev(f.kind, f.groupID))]
    IN  IF f.kind = "selectSite"
        THEN SelectSiteFollowUp(started, f.groupID, lay, plots, datasets)
        ELSE UpdateFollowUp(started, f.groupID, lay, plots, datasets)

\* A frame that runs its callbacks newest first
RunAllNewestFirst(queue, lay, plots, datasets, fx0) ==
    LET F[i \in 0..Len(queue)] ==
            IF i = 0 THEN fx0
            ELSE RunFollowUp(F[i-1], queue[Len(queue) + 1 - i], lay, plots, datasets)
    IN  F[Len(queue)]

\* The callbacks of one animation frame, oldest first; one that throws does not
\* keep the later ones from running.
RunAll(queue, lay, plots, datasets, fx0) ==
    LET F[i \in 0..Len(queue)] ==
            IF i = 0 THEN fx0 ELSE RunFollowUp(F[i-1], queue[i], lay, plots, datasets)
    IN  F[Len(queue)]

\* A page without a SiteList chart
NoSiteList == [present |-> FALSE]

(***************************************************************************)
(* The constructor.                                                        *)
(***************************************************************************)
\* new Simaerep(container, data, config) with c = <<data, metadata, config>>.
\* When render() throws the caller gets no instance; what was rendered up to
\* then stays in the container.
Construct(c) ==
    /\ rawData = DataOrEmpty(c[1])
    /\ groupMetadata = structureGroupMetadata(c[2], ConstructConfig(c[3])).value
    /\ dataConfig = ConstructConfig(c[3])
    /\ config = DisplayOptions(dataConfig)
    /\ thresholds = ThresholdsObject(0)
    /\ selectedCountry = "None"
    /\ LET r == Rendered(config, dataConfig, selectedCountry, UndefinedCountryToSites)
       IN  /\ layout = r.layout
           /\ siteSelector = r.siteSelector
           /\ countrySelector = r.countrySelector
           /\ countryToSites = r.countryToSites
           /\ chartDatasets = r.chartDatasets
           /\ sitePlots = r.sitePlots
           /\ highlighted = r.highlighted
           /\ tooltip = r.tooltip
           /\ sitePlotCharts = [i \in 1..Len(r.sitePlots) |-> NewChart]
           /\ lastCall = Call("constructor", NoneVal, FALSE, r.threw,
                              <<Ev("config", [config |-> c[3]]), Ev("structure", c[2])>>
                              \o (IF structureGroupMetadata(c[2], ConstructConfig(c[3])).warned
                                  THEN <<Ev("warn", Str(RequestedLevel(ConstructConfig(c[3]))))>>
                                  ELSE <<>>)
                              \o <<Ev("render", dataConfig.selectedGroupIDs)>>
                              \o (IF r.threw THEN <<Ev("throw", NoneVal)>> ELSE <<>>))
    /\ container = "rendered"
    /\ chartInstance = NewChart
    /\ released = {}
    /\ pending = <<>>

Init == \E c \in Constructions : Construct(c) /\ siteList = NoSiteList

\* The same for data whose flagged sites carry every kind of score
InitScores == \E c \in ScoreConstructions : Construct(c) /\ siteList = NoSiteList

\* The same for the charts that are hovered
InitTooltip == \E c \in TooltipConstructions : Construct(c) /\ siteList = NoSiteList

\* The same for every way of giving the KRI fields
InitKri == \E c \in KriConstructions : Construct(c) /\ siteList = NoSiteList

\* The same for every list of metadata rows and every level
InitMetadata == \E c \in MetadataConstructions : Construct(c) /\ siteList = NoSiteList

\* The same for callers whose data is missing, empty or has rows with absent
\* or string-typed fields
InitData == \E c \in Constructions \cup DataConstructions : Construct(c) /\ siteList = NoSiteList

(***************************************************************************)
(* updateSelectedGroupIDs(groupID, skipInteraction)                        *)
(***************************************************************************)
\* The condition without its skipInteraction test
UpdateSchedulesIgnoresSkip(groupID, skipInteraction) ==
    Truthy(groupID) /\ groupID # NoneVal

\* Whether updateSelectedGroupIDs queues its callback
UpdateSchedules(groupID, skipInteraction) ==
    ~skipInteraction /\ Truthy(groupID) /\ groupID # NoneVal

UpdateQueue(queue, groupID, skipInteraction) ==
    IF UpdateSchedules(groupID, skipInteraction)
    THEN Append(queue, FollowUp("update", groupID))
    ELSE queue

UpdateLog(groupID, skipInteraction) ==
    <<Ev("set", groupID), Ev("render", groupID)>>
    \o (IF UpdateSchedules(groupID, skipInteraction) THEN <<Ev("raf", groupID)>> ELSE <<>>)

\* A selection that is cleared when the value it already has is set again
SetAndRenderToggle(groupID, country) ==
    /\ dataConfig' = [dataConfig EXCEPT
                        !.selectedGroupIDs = IF @ = groupID THEN NoneVal ELSE groupID]
    /\ config' = config
    /\ Render(config', dataConfig', country)

\* this.data.config.selectedGroupIDs = groupID; this.render()
SetAndRender(groupID, country) ==
    /\ dataConfig' = [dataConfig EXCEPT !.selectedGroupIDs = groupID]
    /\ config' = config
    /\ Render(config', dataConfig', country)

\* An updateSelectedGroupIDs that announces the selection it was given
updateSelectedGroupIDsDispatches(groupID, skipInteraction) ==
    /\ SetAndRender(groupID, selectedCountry)
    /\ pending' = UpdateQueue(pending, groupID, skipInteraction)
    /\ lastCall' = Dispatching(
                        Repeating(Call("updateSelectedGroupIDs", groupID, skipInteraction, FALSE,
                                       UpdateLog(groupID, skipInteraction)),
                                  lastCall),
                        CustomEvent("site-selected", groupID, Undefined, Undefined))
    /\ UNCHANGED <<siteList, rawData, groupMetadata, thresholds, selectedCountry>>

updateSelectedGroupIDs(groupID, skipInteraction) ==
    /\ SetAndRender(groupID, selectedCountry)
    /\ pending' = UpdateQueue(pending, groupID, skipInteraction)
    /\ lastCall' = Repeating(Call("updateSelectedGroupIDs", groupID, skipInteraction, FALSE,
                                   UpdateLog(groupID, skipInteraction)),
                              lastCall)
    /\ UNCHANGED <<siteList, rawData, groupMetadata, thresholds, selectedCountry>>

(***************************************************************************)
(* selectSite(groupID)                                                     *)
(***************************************************************************)
\* selectSite calling updateSelectedGroupIDs without the flag
SelectSiteSkipOmitted == FALSE

\* The skipInteraction argument selectSite passes to updateSelectedGroupIDs
SelectSiteSkip == TRUE

\* selectSite leaving the remembered country as it is
SelectSiteKeepsCountry(country) == country

\* this.selectedCountry after selectSite
SelectSiteCountry(country) == "None"

selectSite(id) ==
    LET groupID == Str(id)
        queue == Append(UpdateQueue(pending, groupID, SelectSiteSkip),
                        FollowUp("selectSite", groupID))
    IN  /\ selectedCountry' = SelectSiteCountry(selectedCountry)
        /\ SetAndRender(groupID, selectedCountry')
        /\ pending' = queue
        /\ lastCall' = Dispatching(
                            Call("selectSite", groupID, SelectSiteSkip, FALSE,
                                 <<Ev("clearCountry", Str(selectedCountry))>>
                                 \o UpdateLog(groupID, SelectSiteSkip)
                                 \o <<Ev("raf", groupID), Ev("site-selected", groupID)>>),
                            CustomEvent("site-selected", groupID, Undefined, Undefined))
        /\ UNCHANGED <<siteList, rawData, groupMetadata, thresholds>>

(***************************************************************************)
(* selectCountry(country)                                                  *)
(***************************************************************************)
\* selectCountry calling updateSelectedGroupIDs without the flag
SelectCountrySkipOmitted == FALSE

\* The skipInteraction argument selectCountry passes to updateSelectedGroupIDs
SelectCountrySkip == TRUE

\* this.countryToSites[country] on an undefined countryToSites is a TypeError
SelectCountryThrows(cts, country) == country # "None" /\ ~cts.defined

selectCountry(country) ==
    IF SelectCountryThrows(countryToSites, country)
    THEN /\ siteSelector' = IF siteSelector.present THEN Selector("None") ELSE siteSelector
         /\ selectedCountry' = country
         /\ lastCall' = Call("selectCountry", Str(country), SelectCountrySkip, TRUE,
                             <<Ev("throw", Str(country))>>)
         /\ UNCHANGED <<siteList, rawData, groupMetadata, config, dataConfig, thresholds,
                        countryToSites, countrySelector, layout, chartDatasets, sitePlots,
                        highlighted, tooltip, container, chartInstance, sitePlotCharts,
                        released, pending>>
    ELSE LET sitesInCountry == SitesInCountry(countryToSites, country)
         IN  /\ selectedCountry' = country
             /\ SetAndRender(sitesInCountry, selectedCountry')
             /\ pending' = UpdateQueue(pending, sitesInCountry, SelectCountrySkip)
             /\ lastCall' = Dispatching(
                                 Call("selectCountry", Str(country), SelectCountrySkip, FALSE,
                                      UpdateLog(sitesInCountry, SelectCountrySkip)
                                      \o <<Ev("country-selected", sitesInCountry)>>),
                                 CustomEvent("country-selected", Undefined, Str(country),
                                             sitesInCountry))
             /\ UNCHANGED <<siteList, rawData, groupMetadata, thresholds>>

(***************************************************************************)
(* updateConfig(chart, config, thresholds)                                 *)
(***************************************************************************)
\* this.data._thresholds_ = thresholds || this.data._thresholds_
NewThresholds(old, given) == IF given.kind = "object" THEN given ELSE old

\* this.data.config = { ...this.data.config, ...config }
MergeConfig(old, patch) == Spread(old, patch)

\* if (groupID && groupID !== 'None'): whether updateConfig queues its callback
ConfigSchedules(groupID) == Truthy(groupID) /\ groupID # NoneVal

updateConfig(patch, given) ==
    LET merged == MergeConfig(dataConfig, patch)
        groupID == merged.selectedGroupIDs
        queue == IF ConfigSchedules(groupID)
                 THEN Append(pending, FollowUp("updateConfig", groupID))
                 ELSE pending
    IN  /\ dataConfig' = merged
        /\ config' = config
        /\ thresholds' = NewThresholds(thresholds, given)
        /\ Render(config', dataConfig', selectedCountry)
        /\ pending' = queue
        /\ lastCall' = Call("updateConfig", groupID, FALSE, FALSE,
                            <<Ev("merge", groupID), Ev("render", groupID)>>
                            \o (IF ConfigSchedules(groupID)
                                THEN <<Ev("raf", groupID)>> ELSE <<>>))
        /\ UNCHANGED <<siteList, rawData, groupMetadata, selectedCountry>>

(***************************************************************************)
(* The next animation frame runs every queued callback, oldest first.      *)
(***************************************************************************)
\* A callback that reaches a torn-down overview handle either still gets its
\* data and scales from it or fails on it: the chart engine decides.
HandleOutcomes == IF chartInstance.torn = 0 THEN {TRUE} ELSE BOOLEAN

AnimationFrame ==
    /\ pending # <<>>
    /\ \E usable \in HandleOutcomes :
       LET fx == RunAll(pending, layout, sitePlots, chartDatasets,
                        [highlighted |-> highlighted, tooltip |-> tooltip, log |-> <<>>,
                         threw |-> FALSE, usable |-> usable])
       IN  /\ highlighted' = fx.highlighted
           /\ tooltip' = fx.tooltip
           /\ lastCall' = Call("animationFrame", NoneVal, FALSE, fx.threw, fx.log)
    /\ pending' = <<>>
    /\ UNCHANGED <<siteList, rawData, groupMetadata, config, dataConfig, thresholds,
                   selectedCountry, countryToSites, siteSelector, countrySelector, layout,
                   chartDatasets, sitePlots, container, chartInstance, sitePlotCharts,
                   released>>

(***************************************************************************)
(* destroy()                                                               *)
(***************************************************************************)
\* The tooltip node destroy() finds in the left panel and removes
RemovedTooltip(tip) == IF tip.present THEN <<Ev("removeTooltip", Str(tip.groupID))>> ELSE <<>>

\* A destroy() that also forgets the selection and the remembered country
destroyForgetsSelection ==
    /\ chartInstance' = Teardown(chartInstance)
    /\ released' = released \cup Counts(DestroyPanels(sitePlotCharts))
    /\ sitePlotCharts' = <<>>
    /\ tooltip' = NoTooltip
    /\ container' = "empty"
    /\ dataConfig' = [dataConfig EXCEPT !.selectedGroupIDs = NoneVal]
    /\ selectedCountry' = "None"
    /\ lastCall' = Call("destroy", NoneVal, FALSE, FALSE,
                        <<Ev("teardown", Str("overview"))>>
                        \o [i \in 1..Len(sitePlotCharts) |->
                                Ev("teardown", Str(sitePlots[i].groupID))]
                        \o RemovedTooltip(tooltip)
                        \o <<Ev("empty", NoneVal)>>)
    /\ UNCHANGED <<siteList, rawData, groupMetadata, config, thresholds,
                   countryToSites, siteSelector, countrySelector, layout,
                   chartDatasets, sitePlots, highlighted, pending>>

destroy ==
    /\ chartInstance' = Teardown(chartInstance)
    /\ released' = released \cup Counts(DestroyPanels(sitePlotCharts))
    /\ sitePlotCharts' = <<>>
    /\ tooltip' = NoTooltip
    /\ container' = "empty"
    /\ lastCall' = Call("destroy", NoneVal, FALSE, FALSE,
                        <<Ev("teardown", Str("overview"))>>
                        \o [i \in 1..Len(sitePlotCharts) |->
                                Ev("teardown", Str(sitePlots[i].groupID))]
                        \o RemovedTooltip(tooltip)
                        \o <<Ev("empty", NoneVal)>>)
    /\ UNCHANGED <<siteList, rawData, groupMetadata, config, dataConfig, thresholds,
                   selectedCountry, countryToSites, siteSelector, countrySelector, layout,
                   chartDatasets, sitePlots, highlighted, pending>>

(***************************************************************************)
(* The chart engine calls the external tooltip handler on a hover: with    *)
(* the candidates nearest to the pointer, with none, or with opacity 0     *)
(* when the pointer leaves.                                                *)
(***************************************************************************)
\* The datasets of chart c
DatasetsOf(c) == IF c = 0 THEN chartDatasets ELSE sitePlots[c].datasets

\* The first candidate of an event is at NearPoint; the others are at the
\* same point, at the threshold on both axes, or beyond it on one axis
NearPoint == [x |-> 10, y |-> 10]
OtherPoints == {[x |-> 10, y |-> 10], [x |-> 15, y |-> 5], [x |-> 16, y |-> 10],
                [x |-> 10, y |-> 4]}
\* ... and, for the overlap detection by itself, on the other side of it
DetectPoints == OtherPoints \cup {[x |-> 5, y |-> 15], [x |-> 4, y |-> 10]}
\* The series the candidates come from: the first, the entity series before
\* the study series, the study series
FirstIndices(datasets) == {1} \cap DOMAIN datasets
OtherIndices(datasets) == {Len(datasets) - 1, Len(datasets)} \cap DOMAIN datasets

ItemLists(datasets) ==
    {items \in UNION {[1..n -> [datasetIndex : DOMAIN datasets, parsed : OtherPoints]] :
                        n \in 0..MaxItems} :
        /\ Len(items) > 0 => /\ items[1].parsed = NearPoint
                              /\ items[1].datasetIndex \in FirstIndices(datasets)
        /\ \A i \in 2..Len(items) : items[i].datasetIndex \in OtherIndices(datasets)}

\* Candidates by their coordinates alone, for the overlap detection
PointLists ==
    {items \in UNION {[1..n -> [datasetIndex : {1}, parsed : DetectPoints]] : n \in 0..MaxItems} :
        Len(items) > 0 => items[1].parsed = NearPoint}

CaretPoints == {<<50, 10>>, <<50, 100>>, <<150, 100>>, <<390, 100>>}

\* Events with no, one and several candidates, over the overview chart and
\* the chart of the first detail panel
OverlapEvents ==
    UNION {{[chart |-> c, opacity |-> 1, caretX |-> 150, caretY |-> 100,
             dataPoints |-> items] : items \in ItemLists(DatasetsOf(c))} :
           c \in {k \in 0..1 : k <= Len(sitePlots)}}
\* Events with one candidate at every caret position, over the overview chart
\* and the chart of the first detail panel
PositionEvents ==
    UNION {{[chart |-> c, opacity |-> 1, caretX |-> at[1], caretY |-> at[2],
             dataPoints |-> <<[datasetIndex |-> i, parsed |-> NearPoint]>>] :
                i \in FirstIndices(DatasetsOf(c)) \cup OtherIndices(DatasetsOf(c)),
                at \in {q \in CaretPoints :
                            q[1] <= IF c = 0 THEN CanvasWidth(layout) ELSE PanelCanvasWidth}} :
           c \in {k \in 0..1 : k <= Len(sitePlots)}}
\* The pointer left the chart
HideEvents ==
    {[chart |-> c, opacity |-> 0, caretX |-> 150, caretY |-> 100, dataPoints |-> <<>>] :
        c \in {k \in 0..1 : k <= Len(sitePlots)}}


hover(e) ==
    /\ container = "rendered"
    /\ tooltip' = externalTooltipHandler(tooltip, DatasetsOf(e.chart), e)
    /\ lastCall' = Call("hover", NoneVal, FALSE, FALSE, <<Ev("hover", e)>>)
    /\ UNCHANGED <<siteList, rawData, groupMetadata, config, dataConfig, thresholds,
                   selectedCountry, countryToSites, siteSelector, countrySelector, layout,
                   chartDatasets, sitePlots, highlighted, container, chartInstance,
                   sitePlotCharts, released, pending>>

\* detectOverlappingPoints(tooltipItems) called by itself
callDetectOverlappingPoints(tooltipItems) ==
    /\ lastCall' = Call("detectOverlappingPoints", NoneVal, FALSE, FALSE,
                        <<Ev("items", [dataPoints |-> tooltipItems]),
                          Ev("returned", IF detectOverlappingPoints(tooltipItems)
                                         THEN Str("true") ELSE Str("false"))>>)
    /\ UNCHANGED <<siteList, rawData, groupMetadata, config, dataConfig, thresholds,
                   selectedCountry, countryToSites, siteSelector, countrySelector, layout,
                   chartDatasets, sitePlots, highlighted, tooltip, container,
                   chartInstance, sitePlotCharts, released, pending>>

(***************************************************************************)
(* scrollToSitePlot(groupID) called by the host                            *)
(***************************************************************************)
callScrollToSitePlot(groupID) ==
    /\ LET fx == scrollToSitePlot([highlighted |-> highlighted, tooltip |-> tooltip,
                                   log |-> <<>>, threw |-> FALSE, usable |-> TRUE],
                                  groupID, layout, sitePlots)
       IN  lastCall' = Call("scrollToSitePlot", groupID, FALSE, fx.threw, fx.log)
    /\ UNCHANGED <<siteList, rawData, groupMetadata, config, dataConfig, thresholds,
                   selectedCountry, countryToSites, siteSelector, countrySelector, layout,
                   chartDatasets, sitePlots, highlighted, tooltip, container,
                   chartInstance, sitePlotCharts, released, pending>>

\* A handler is called while fewer than MaxPending callbacks wait for a frame.
QueueHasRoom == Len(pending) < MaxPending

\* The selection controller: every way a selection arrives, and the frames.
Next ==
    \/ \E id \in SelectSiteArgs : QueueHasRoom /\ selectSite(id)
    \/ \E country \in SelectCountryArgs : QueueHasRoom /\ selectCountry(country)
    \/ \E v \in SelectionValues, skip \in BOOLEAN :
            QueueHasRoom /\ updateSelectedGroupIDs(v, skip)
    \/ \E patch \in SelectionPatches :
            QueueHasRoom /\ updateConfig(patch, ThresholdsUndefined)
    \/ AnimationFrame

Spec == Init /\ [][Next]_vars

\* The configuration entry point: the host pushes configuration and thresholds.
NextConfig ==
    \/ \E patch \in DisplayPatches, given \in ThresholdsArgs :
            QueueHasRoom /\ updateConfig(patch, given)
    \/ \E v \in {NoneVal, Str("10")} : QueueHasRoom /\ updateSelectedGroupIDs(v, FALSE)
    \/ AnimationFrame

SpecConfig == Init /\ [][NextConfig]_vars

\* A host that pushes selection values of any shape through both entry
\* points, next to a user who picks site 120 in the dropdown.
NextShapes ==
    \/ \E v \in ShapeValues : QueueHasRoom /\ updateSelectedGroupIDs(v, FALSE)
    \/ \E v \in ShapeValues :
            QueueHasRoom /\ updateConfig([selectedGroupIDs |-> v], ThresholdsUndefined)
    \/ QueueHasRoom /\ selectSite("120")
    \/ AnimationFrame

SpecShapes == Init /\ [][NextShapes]_vars

\* The host scrolls by itself, between selections, with targets of every shape
ScrollArgs == ShapeValues \cup {NoneVal, Str(""), Str("120"), Str("10"),
                                Arr(<<"10", "120">>), Arr(<<"10", UnknownSite>>)}

NextScroll ==
    \/ \E groupID \in ScrollArgs : callScrollToSitePlot(groupID)
    \/ \E id \in {"120", "None"} : QueueHasRoom /\ selectSite(id)
    \/ AnimationFrame

SpecScroll == Init /\ [][NextScroll]_vars

\* Charts over data with every kind of score, re-rendered by selections
NextScores ==
    \/ \E id \in {"120", "None"} : QueueHasRoom /\ selectSite(id)
    \/ AnimationFrame

SpecScores == InitScores /\ [][NextScores]_vars

\* Charts over every metadata input, used through the country and site selectors
NextMetadata ==
    \/ \E country \in {"USA", "None"} : QueueHasRoom /\ selectCountry(country)
    \/ \E id \in {"120"} : QueueHasRoom /\ selectSite(id)
    \/ AnimationFrame

SpecMetadata == InitMetadata /\ [][NextMetadata]_vars

\* Nothing is called on a destroyed instance.
Live == container = "rendered"

\* Charts built with every way of giving the KRI fields, then used
NextKri ==
    \/ \E id \in {"120", "None"} : Live /\ QueueHasRoom /\ selectSite(id)
    \/ AnimationFrame
    \/ Live /\ destroy

SpecKri == InitKri /\ [][NextKri]_vars

\* A user hovers over the charts between selections
NextTooltip ==
    \/ \E e \in PositionEvents \cup HideEvents : hover(e)
    \/ \E id \in {"120"} : Live /\ QueueHasRoom /\ selectSite(id)
    \/ Live /\ destroy
    \/ AnimationFrame

SpecTooltip == InitTooltip /\ [][NextTooltip]_vars

\* The overlap detection by itself
NextDetect ==
    \/ \E items \in PointLists : callDetectOverlappingPoints(items)
    \/ \E id \in {"120", "None"} : QueueHasRoom /\ selectSite(id)
    \/ AnimationFrame

SpecDetect == InitTooltip /\ [][NextDetect]_vars

\* Candidates on one line: a point, and the points at the threshold to its
\* left and to its right
LinePoints == {[x |-> 10, y |-> 10], [x |-> 15, y |-> 10], [x |-> 5, y |-> 10]}
\* The lists of two or more of them, in every order
CandidateLists ==
    UNION {[1..n -> [datasetIndex : {1}, parsed : LinePoints]] : n \in 2..MaxCandidates}

\* The overlap detection given the same candidates in one order after another
NextPermute ==
    \E items \in CandidateLists : callDetectOverlappingPoints(items)

SpecPermute == InitTooltip /\ [][NextPermute]_vars

\* Hovers that meet several series at once
NextOverlap ==
    \/ \E e \in OverlapEvents : hover(e)
    \/ \E id \in {"120"} : QueueHasRoom /\ selectSite(id)
    \/ AnimationFrame

SpecOverlap == InitTooltip /\ [][NextOverlap]_vars

\* The life of one instance: selections and updates, then destroy(); frames
\* fire before and after it.

NextLifecycle ==
    \/ \E id \in {"120", "None"} : Live /\ QueueHasRoom /\ selectSite(id)
    \/ \E country \in {"USA"} : Live /\ QueueHasRoom /\ selectCountry(country)
    \/ \E v \in {Arr(<<"10", "120">>)} : Live /\ QueueHasRoom /\ updateSelectedGroupIDs(v, FALSE)
    \/ \E patch \in {[selectedGroupIDs |-> Str("10")]} :
            Live /\ QueueHasRoom /\ updateConfig(patch, ThresholdsUndefined)
    \/ Live /\ destroy
    \/ AnimationFrame

SpecLifecycle == Init /\ [][NextLifecycle]_vars

\* A user who picks sites in the dropdown faster than the frames come.
NextRapid ==
    \/ \E id \in {"120", "10", "None", UnknownSite} : Len(pending) < MaxRapid /\ selectSite(id)
    \/ AnimationFrame

SpecRapid == Init /\ [][NextRapid]_vars

\* A caller gets an instance to call only when the constructor returned.
Constructed == ~(lastCall.op = "constructor" /\ lastCall.threw)

\* Charts built from every kind of data, then used.
NextData ==
    \/ \E id \in {"120", "10"} : Constructed /\ QueueHasRoom /\ selectSite(id)
    \/ \E country \in {"USA", "None"} : Constructed /\ QueueHasRoom /\ selectCountry(country)
    \/ \E v \in {NoneVal, Arr(<<"10", "120">>)}, skip \in BOOLEAN :
            Constructed /\ QueueHasRoom /\ updateSelectedGroupIDs(v, skip)
    \/ AnimationFrame

SpecData == InitData /\ [][NextData]_vars

(***************************************************************************)
(* The SiteList chart: a list of the sites with one item per site and a    *)
(* dropdown.  siteList holds this.config, this.data.config, the thresholds,*)
(* the sites, the items and the dropdown of the last render, and the last  *)
(* call with the event it dispatched.                                      *)
(***************************************************************************)
\* A site of the list: its GroupID and, for some, a name
Site(groupID, name) ==
    IF name = "" THEN [GroupID |-> groupID] ELSE [GroupID |-> groupID, SiteName |-> name]

\* The constructor's this.config: defaults, then ...config
SiteListConfig(userConfig) ==
    Spread([selectedGroupIDs |->
                IF Has(userConfig, "selectedGroupIDs") /\ Truthy(userConfig.selectedGroupIDs)
                THEN userConfig.selectedGroupIDs ELSE NoneVal,
            showGroupSelector |->
                ~(Has(userConfig, "showGroupSelector") /\ userConfig.showGroupSelector = FALSE),
            groupLabelKey |->
                IF Has(userConfig, "groupLabelKey") /\ userConfig.groupLabelKey # ""
                THEN userConfig.groupLabelKey ELSE "GroupID"],
           userConfig)

\* site[this.config.groupLabelKey] || site.GroupID
ItemGroupID(site, cfg) ==
    IF Has(site, cfg.groupLabelKey) /\ site[cfg.groupLabelKey] # ""
    THEN site[cfg.groupLabelKey] ELSE site.GroupID

\* createSiteItem: this.data.config.selectedGroupIDs === groupID
createSiteItem(site, cfg, selection) ==
    [groupID |-> ItemGroupID(site, cfg),
     selected |-> selection = Str(ItemGroupID(site, cfg))]

\* What select.value = v makes of a string or a number: its text
ValueText(v) == v.str

\* A dropdown that is left at its first option
addGroupSelectorUnset(sites, cfg, selection) == Selector("None")

\* addGroupSelector: 'None' and one option per site, then select.value
addGroupSelector(sites, cfg, selection) ==
    Selector(SelectValue({"None"} \cup {ItemGroupID(sites[i], cfg) : i \in 1..Len(sites)},
                         ValueText(selection)))

\* render(): the items and, when this.config enables it, the dropdown
SiteListRender(sl) ==
    [sl EXCEPT
        !.rendered = TRUE,
        !.items = [i \in 1..Len(sl.sites) |->
                        createSiteItem(sl.sites[i], sl.config, sl.dataConfig.selectedGroupIDs)],
        !.selector = IF sl.config.showGroupSelector
                     THEN addGroupSelector(sl.sites, sl.config, sl.dataConfig.selectedGroupIDs)
                     ELSE NoSelector]

\* new SiteList(container, data, config)
SiteListConstruct(sites, userConfig) ==
    SiteListRender([present |-> TRUE, rendered |-> FALSE,
                    config |-> SiteListConfig(userConfig),
                    dataConfig |-> SiteListConfig(userConfig),
                    thresholds |-> ThresholdsObject(0),
                    sites |-> sites, items |-> <<>>, selector |-> NoSelector,
                    op |-> "constructor", arg |-> NoneVal, dispatched |-> <<>>])

\* updateSelectedGroupIDs(groupID) of the SiteList
SiteListUpdated(sl, groupID) ==
    SiteListRender([sl EXCEPT !.dataConfig = [@ EXCEPT !.selectedGroupIDs = groupID]])

\* selectSite(groupID): update, dispatch site-selected, set the dropdown
SiteListSelected(sl, groupID) ==
    LET shown == SiteListUpdated(sl, groupID)
    IN  [shown EXCEPT
            !.dispatched = <<Ev("site-selected", groupID)>>,
            !.selector = IF shown.selector.present
                         THEN addGroupSelector(sl.sites, sl.config, groupID)
                         ELSE shown.selector]

\* The sites a SiteList is built from: none, two, two of which one has a
\* name, and three with a repeated GroupID
SiteListData ==
    { <<>>,
      <<Site("10", ""), Site("120", "")>>,
      <<Site("10", "Alpha"), Site("120", "")>>,
      <<Site("10", ""), Site("120", ""), Site("10", "")>> }
SiteListConfigs ==
    { EmptyObject, [selectedGroupIDs |-> Str("120")], [showGroupSelector |-> FALSE],
      [groupLabelKey |-> "SiteName"] }
\* What a host passes to updateSelectedGroupIDs: the sentinel, the IDs of
\* sites and the ID of no site
SiteListSelections == {NoneVal, Str("10"), Str("120"), Str(UnknownSite)}
SiteListPatches ==
    { EmptyObject, [selectedGroupIDs |-> Str("10")], [selectedGroupIDs |-> NoneVal],
      [showGroupSelector |-> TRUE, groupLabelKey |-> "GroupID"] }

\* The Simaerep variables of a page that shows a SiteList
ChartOfSiteListPage == Construct(<<DataEmpty, RowsUndefined, EmptyObject>>)

InitSiteList ==
    /\ ChartOfSiteListPage
    /\ \E sites \in SiteListData, userConfig \in SiteListConfigs :
            siteList = SiteListConstruct(sites, userConfig)

SiteListStep(next) ==
    /\ siteList.present
    /\ siteList' = next
    /\ UNCHANGED <<rawData, groupMetadata, config, dataConfig, thresholds, selectedCountry,
                   countryToSites, siteSelector, countrySelector, layout, chartDatasets,
                   sitePlots, highlighted, tooltip, container, chartInstance,
                   sitePlotCharts, released, pending, lastCall>>

\* helpers.updateSelectedGroupIDs(groupID)
SiteListUpdateSelectedGroupIDs(groupID) ==
    /\ siteList.present
    /\ SiteListStep([SiteListUpdated(siteList, groupID) EXCEPT
                       !.op = "updateSelectedGroupIDs", !.arg = groupID, !.dispatched = <<>>])

\* helpers.updateConfig(chart, config, thresholds)
SiteListUpdateConfig(patch, given) ==
    /\ siteList.present
    /\ SiteListStep([SiteListRender([siteList EXCEPT
                                       !.dataConfig = Spread(@, patch),
                                       !.thresholds = NewThresholds(@, given)])
                     EXCEPT !.op = "updateConfig",
                            !.arg = Spread(siteList.dataConfig, patch).selectedGroupIDs,
                            !.dispatched = <<>>])

\* A click on item i of the list
SiteListClick(i) ==
    /\ siteList.present /\ siteList.rendered
    /\ i \in 1..Len(siteList.items)
    /\ SiteListStep([SiteListSelected(siteList, Str(siteList.items[i].groupID)) EXCEPT
                        !.op = "click", !.arg = Str(siteList.items[i].groupID)])

\* The user picks option v of the dropdown
SiteListChange(v) ==
    /\ siteList.present /\ siteList.rendered /\ siteList.selector.present
    /\ v \in {"None"} \cup {siteList.items[i].groupID : i \in 1..Len(siteList.items)}
    /\ SiteListStep([SiteListSelected(siteList, Str(v)) EXCEPT
                        !.op = "change", !.arg = Str(v)])

\* destroy() of the SiteList: the container is emptied
SiteListDestroy ==
    /\ siteList.present /\ siteList.rendered
    /\ SiteListStep([siteList EXCEPT !.rendered = FALSE, !.items = <<>>,
                                     !.selector = NoSelector, !.op = "destroy",
                                     !.arg = NoneVal, !.dispatched = <<>>])

NextSiteList ==
    \/ \E groupID \in SiteListSelections : SiteListUpdateSelectedGroupIDs(groupID)
    \/ \E patch \in SiteListPatches, given \in ThresholdsArgs :
            SiteListUpdateConfig(patch, given)
    \/ \E i \in 1..3 : SiteListClick(i)
    \/ \E v \in {"None", "10", "120", "Alpha"} : SiteListChange(v)
    \/ SiteListDestroy

SpecSiteList == InitSiteList /\ [][NextSiteList]_vars

(***************************************************************************)
(* Properties.  They are stated on what the program leaves behind: the     *)
(* series of the charts, the dropdowns, the layout, the queue and the      *)
(* record of the last call.                                                *)
(***************************************************************************)
\* The selection in effect
Selection == dataConfig.selectedGroupIDs

\* The entity IDs a selection value names: the elements of a list, the single
\* ID of a string, none for the sentinel
SelectionIDs(sel) ==
    IF sel.kind = "array" THEN {sel.arr[i] : i \in 1..Len(sel.arr)}
    ELSE IF sel.kind = "string" /\ sel.str \notin {"", "None"} THEN {sel.str}
    ELSE {}

\* The positions of the entity series (flagged or unflagged) of a chart
EntitySeries(datasets) ==
    {i \in 1..Len(datasets) : datasets[i].siteType \in {"flagged", "unflagged"}}

\* How often, and where first, an event occurs in a log
CountEv(log, name) == Cardinality({k \in 1..Len(log) : log[k].ev = name})
FirstEv(log, name) ==
    IF CountEv(log, name) = 0 THEN 0
    ELSE CHOOSE k \in 1..Len(log) :
            log[k].ev = name /\ \A m \in 1..(k-1) : log[m].ev # name

\* The events of the three follow-up effects
EffectEvents == {"highlight", "scroll", "scrollIntoView", "tooltip", "tooltipShown"}
NoEffects(log) == \A k \in 1..Len(log) : log[k].ev \notin EffectEvents

\* C1: in the overview chart every entity series whose entityID is in the
\* selection has opacity 1.0 and border width 3; every other entity series
\* has opacity 0.2 when the selection names some entity and opacity 1.0 when
\* there is no selection, with border width 1 (unflagged) or 1.5 (flagged).
C1_SelectedSeriesStyle ==
    \A i \in EntitySeries(chartDatasets) :
        LET ds == chartDatasets[i]
            ids == SelectionIDs(Selection)
        IN  IF ds.groupID \in ids
            THEN ds.borderColor.a = 10 /\ ds.borderWidth = 30
            ELSE /\ ds.borderColor.a = (IF ids # {} THEN 2 ELSE 10)
                 /\ ds.borderWidth = (IF ds.siteType = "flagged" THEN 15 ELSE 10)

\* A list of two IDs is selected; the chart shows selected series of both
\* kinds and dimmed series of both kinds.
C1_Witness ==
    /\ IsArray(Selection) /\ Len(Selection.arr) = 2
    /\ \A t \in {"flagged", "unflagged"} :
        /\ \E i \in EntitySeries(chartDatasets) :
              chartDatasets[i].siteType = t /\ chartDatasets[i].borderWidth = 30
        /\ \E i \in EntitySeries(chartDatasets) :
              chartDatasets[i].siteType = t /\ chartDatasets[i].borderColor.a = 2

\* Whether series i of the overview chart is of the given kind and selected or not
IsSeries(i, siteType, selected) ==
    /\ chartDatasets[i].siteType = siteType
    /\ (chartDatasets[i].groupID \in SelectionIDs(Selection)) = selected

OrderBelow(i, j) == chartDatasets[i].order < chartDatasets[j].order

StudyTopmost(datasets) ==
    \A i, j \in 1..Len(datasets) :
        (datasets[i].siteType = "study" /\ j # i) => datasets[i].order < datasets[j].order

\* C3: the study series, when present, has a draw-order value strictly less
\* than every other series of its chart, in the overview chart and in each
\* detail panel.
C3_StudyTopmost ==
    /\ StudyTopmost(chartDatasets)
    /\ \A p \in 1..Len(sitePlots) : StudyTopmost(sitePlots[p].datasets)

\* After a selection by the host the overview shows the study series next to a
\* selected flagged series, and a detail panel shows it next to the site line
\* and sub-entity lines.
C3_Witness ==
    /\ lastCall.op = "updateSelectedGroupIDs"
    /\ \E i, j \in 1..Len(chartDatasets) :
          /\ chartDatasets[i].siteType = "study"
          /\ chartDatasets[j].siteType = "flagged" /\ chartDatasets[j].borderWidth = 30
    /\ \E p \in 1..Len(sitePlots) :
          /\ \E i \in 1..Len(sitePlots[p].datasets) :
                sitePlots[p].datasets[i].siteType = "study"
          /\ \E i \in 1..Len(sitePlots[p].datasets) :
                sitePlots[p].datasets[i].dataType = "patient"

\* C4: after selectSite(id) the remembered country is None, the selection is
\* exactly id, and the country dropdown of the new render shows None.
C4_SelectSiteClearsCountry ==
    lastCall.op = "selectSite" =>
        /\ selectedCountry = "None"
        /\ Selection = lastCall.arg
        /\ Selection.kind = "string"
        /\ (countrySelector.present => countrySelector.value = "None")

\* selectSite("120") was called while the country USA was remembered.
C4_Witness ==
    /\ lastCall.op = "selectSite"
    /\ lastCall.arg = Str("120")
    /\ lastCall.log[1] = Ev("clearCountry", Str("USA"))
    /\ selectedCountry = "None"
    /\ countrySelector = Selector("None")

\* The IDs of the group metadata whose Country attribute is c, in its order
CountryIDs(gm, c) ==
    IF gm.isNull THEN <<>>
    ELSE LET mine == SelectSeq(gm.entries,
                        LAMBDA e : "Country" \in DOMAIN e.attrs /\ e.attrs.Country = c)
         IN  [i \in 1..Len(mine) |-> mine[i].GroupID]

\* C5 as stated: after selectCountry(c) returns, the remembered country is c
\* and the selection is the list of the IDs whose Country is c: the empty
\* list when c is unknown and also when c is the sentinel; never a single ID.
C5_SelectionIsCountryList ==
    (lastCall.op = "selectCountry" /\ ~lastCall.threw) =>
        /\ selectedCountry = lastCall.arg.str
        /\ Selection = Arr(CountryIDs(groupMetadata, lastCall.arg.str))

\* C5 as amended: after selectCountry(c) returns, the remembered country is c;
\* for c other than the sentinel the selection is the list of the IDs whose
\* Country is c (empty when c is unknown); for the sentinel the selection is
\* the sentinel itself, not a list; never a single ID.
C5_SelectionIsCountryListOrSentinel ==
    (lastCall.op = "selectCountry" /\ ~lastCall.threw) =>
        /\ selectedCountry = lastCall.arg.str
        /\ Selection = IF lastCall.arg.str = "None" THEN NoneVal
                       ELSE Arr(CountryIDs(groupMetadata, lastCall.arg.str))

\* selectCountry("USA") returned with the two sites of that country selected.
C5_Witness ==
    /\ lastCall.op = "selectCountry" /\ ~lastCall.threw
    /\ lastCall.arg = Str("USA")
    /\ selectedCountry = "USA"
    /\ Selection = Arr(<<"120", "10">>)

\* The callbacks a frame ran, oldest first, as the follow-ups they are
CallbacksRun(log) ==
    LET ran == SelectSeq(log, LAMBDA e : e.ev \in CallbackKinds)
    IN  [k \in 1..Len(ran) |-> FollowUp(ran[k].ev, ran[k].val)]

\* After position k of a frame's log come highlight, scroll and tooltip for the
\* single ID id, in this order (scrollIntoView and tooltipShown are their parts)
ActsFor(log, k, id) ==
    LET rest == SelectSeq(SubSeq(log, k + 1, Len(log)),
                          LAMBDA e : e.ev \in {"highlight", "scroll", "tooltip"}
                                               \cup CallbackKinds)
    IN  /\ Len(rest) >= 3
        /\ rest[1] = Ev("highlight", id)
        /\ rest[2] = Ev("scroll", id)
        /\ rest[3] = Ev("tooltip", id)

\* No effect follows position k of a frame's log before the next callback starts
ActsNot(log, k) ==
    \A m \in (k+1)..Len(log) :
        log[m].ev \in EffectEvents => \E n \in (k+1)..(m-1) : log[n].ev \in CallbackKinds

\* C6: selectSite(id) with id other than the sentinel queues exactly one
\* callback, after its render and without performing any effect itself; the
\* frame runs each queued callback once, and the callback of selectSite(id)
\* performs highlight, scroll and tooltip for id; the callback of
\* selectSite with the sentinel performs none of them.
C6_OneFollowUpAfterRender ==
    [][ /\ (lastCall'.op = "selectSite" /\ lastCall'.arg # NoneVal) =>
              /\ pending' = Append(pending, FollowUp("selectSite", lastCall'.arg))
              /\ CountEv(lastCall'.log, "raf") = 1
              /\ CountEv(lastCall'.log, "render") = 1
              /\ FirstEv(lastCall'.log, "render") < FirstEv(lastCall'.log, "raf")
              /\ NoEffects(lastCall'.log)
              /\ highlighted' = {} /\ ~tooltip'.present
        /\ (lastCall'.op = "selectSite" /\ lastCall'.arg = NoneVal) =>
              /\ NoEffects(lastCall'.log)
              /\ highlighted' = {} /\ ~tooltip'.present
        /\ lastCall'.op = "animationFrame" =>
              /\ CallbacksRun(lastCall'.log) = pending
              /\ pending' = <<>>
              /\ \A k \in 1..Len(lastCall'.log) :
                    lastCall'.log[k].ev = "selectSite" =>
                        IF lastCall'.log[k].val # NoneVal
                        THEN ActsFor(lastCall'.log, k, lastCall'.log[k].val)
                        ELSE ActsNot(lastCall'.log, k)
      ]_vars

\* A frame ran the callback of selectSite("120"): the panel of 120 carries the
\* outline and the tooltip of 120 is shown.
C6_Witness ==
    /\ lastCall.op = "animationFrame"
    /\ CallbacksRun(lastCall.log) = <<FollowUp("selectSite", Str("120"))>>
    /\ highlighted = {"120"}
    /\ tooltip.present /\ tooltip.groupID = "120"
    /\ CountEv(lastCall.log, "scrollIntoView") = 1

\* Two charts show the same series, whatever their styling
SameSeries(a, b) ==
    /\ Len(a) = Len(b)
    /\ \A i \in 1..Len(a) :
          /\ a[i].groupID = b[i].groupID
          /\ a[i].siteType = b[i].siteType
          /\ a[i].data = b[i].data

\* C7: selectCountry(c) queues no callback and performs no highlight, scroll
\* or tooltip; the detail panels and the layout are as before, and the
\* overview chart shows the same series, restyled.
C7_SelectCountryQueuesNothing ==
    [][ lastCall'.op = "selectCountry" =>
            /\ pending' = pending
            /\ CountEv(lastCall'.log, "raf") = 0
            /\ NoEffects(lastCall'.log)
            /\ highlighted' \subseteq highlighted
            /\ (tooltip'.present => tooltip' = tooltip)
            /\ sitePlots' = sitePlots
            /\ layout' = layout
            /\ SameSeries(chartDatasets', chartDatasets)
      ]_vars

\* selectCountry("USA") returned: the sites of USA are selected, another series
\* is dimmed, nothing waits for a frame, no panel is outlined.
C7_Witness ==
    /\ lastCall.op = "selectCountry" /\ ~lastCall.threw
    /\ lastCall.arg = Str("USA")
    /\ SelectionIDs(Selection) = {"120", "10"}
    /\ \E i \in EntitySeries(chartDatasets) : chartDatasets[i].borderColor.a = 2
    /\ sitePlots # <<>>
    /\ pending = <<>> /\ highlighted = {} /\ ~tooltip.present

\* A value that names a selection: a list, or a string other than '' and the sentinel
NotSentinel(v) ==
    v.kind = "array" \/ (v.kind = "string" /\ v.str \notin {"", "None"})

\* C8: updateSelectedGroupIDs(v, skip) sets the selection to exactly v, leaves
\* the remembered country alone, renders, and queues its one callback exactly
\* when skip is not set and v is not the sentinel; a frame then performs
\* highlight, scroll and tooltip for a single ID v.
C8_UpdateSelectionSchedules ==
    [][ /\ lastCall'.op = "updateSelectedGroupIDs" =>
              /\ Selection' = lastCall'.arg
              /\ selectedCountry' = selectedCountry
              /\ CountEv(lastCall'.log, "render") = 1
              /\ FirstEv(lastCall'.log, "set") < FirstEv(lastCall'.log, "render")
              /\ NoEffects(lastCall'.log)
              /\ pending' = IF ~lastCall'.skip /\ NotSentinel(lastCall'.arg)
                            THEN Append(pending, FollowUp("update", lastCall'.arg))
                            ELSE pending
              /\ CountEv(lastCall'.log, "raf") = Len(pending') - Len(pending)
              /\ (CountEv(lastCall'.log, "raf") = 1 =>
                    FirstEv(lastCall'.log, "render") < FirstEv(lastCall'.log, "raf"))
        /\ lastCall'.op = "animationFrame" =>
              \A k \in 1..Len(lastCall'.log) :
                    (lastCall'.log[k].ev = "update" /\ lastCall'.log[k].val.kind = "string")
                        => ActsFor(lastCall'.log, k, lastCall'.log[k].val)
      ]_vars

\* The host passed a list of two IDs while the country USA was remembered: the
\* list is the selection, USA is still remembered, one callback waits.
C8_Witness ==
    /\ lastCall.op = "updateSelectedGroupIDs" /\ ~lastCall.skip
    /\ lastCall.arg = Arr(<<"10", "120">>)
    /\ Selection = Arr(<<"10", "120">>)
    /\ selectedCountry = "USA"
    /\ pending = <<FollowUp("update", Arr(<<"10", "120">>))>>

\* C9: after updateConfig(chart, patch, thresholds) the exposed configuration
\* is the previous one with every key of patch overriding it, and the exposed
\* thresholds are exactly the value passed, whatever it is.
C9_ConfigMergedThresholdsReplaced ==
    [][ \A patch \in DisplayPatches, given \in ThresholdsArgs :
            updateConfig(patch, given) =>
                /\ DOMAIN dataConfig' = DOMAIN dataConfig \cup DOMAIN patch
                /\ \A k \in DOMAIN dataConfig' :
                      dataConfig'[k] = IF k \in DOMAIN patch THEN patch[k] ELSE dataConfig[k]
                /\ thresholds' = given
      ]_vars

\* C10: the render of updateConfig lays out what the merged configuration
\* says: selector visibility, detail-panel visibility and height; the
\* configuration render() reads agrees with the exposed one.
C10_RenderUsesMergedConfig ==
    lastCall.op = "updateConfig" =>
        /\ \A k \in DisplayKeys : config[k] = dataConfig[k]
        /\ siteSelector.present = dataConfig.showGroupSelector
        /\ countrySelector.present = dataConfig.showCountrySelector
        /\ layout.siteSelector = dataConfig.showGroupSelector
        /\ layout.countrySelector = dataConfig.showCountrySelector
        /\ layout.rightPanel = (dataConfig.showRightPanel /\ Len(df_visit(rawData)) > 0)
        /\ (sitePlots # <<>> => dataConfig.showRightPanel)
        /\ layout.availableHeight =
              IF dataConfig.height.auto THEN HeightAuto
              ELSE HeightPx(dataConfig.height.px
                            - (IF dataConfig.showGroupSelector \/ dataConfig.showCountrySelector
                               THEN 40 ELSE 0))

\* The first ID of a list that has a detail panel in the current render, ''
\* when none has or no detail-panel layer is shown
FirstPanelID(ids) ==
    LET hits == {i \in 1..Len(ids) :
                    layout.rightPanel /\ \E p \in 1..Len(sitePlots) : sitePlots[p].groupID = ids[i]}
    IN  IF hits = {} THEN "" ELSE ids[CHOOSE i \in hits : \A j \in hits : i <= j]

\* The one target of the follow-up for selection v: v itself when it is a
\* single ID, the first listed ID with a detail panel when it is a list
TargetOf(v) == IF v.kind = "array" THEN FirstPanelID(v.arr) ELSE v.str

\* After position k of a frame's log come highlight for the target t, scroll
\* for the selection v and the tooltip for t, in this order
ActsForTarget(log, k, v, t) ==
    LET rest == SelectSeq(SubSeq(log, k + 1, Len(log)),
                          LAMBDA e : e.ev \in {"highlight", "scroll", "tooltip"}
                                               \cup CallbackKinds)
        moved == SelectSeq(SubSeq(log, k + 1, Len(log)),
                          LAMBDA e : e.ev \in {"scrollIntoView"} \cup CallbackKinds)
    IN  /\ Len(rest) >= 3
        /\ rest[1] = Ev("highlight", Str(t))
        /\ rest[2] = Ev("scroll", v)
        /\ rest[3] = Ev("tooltip", Str(t))
        /\ (moved # <<>> /\ moved[1].ev = "scrollIntoView") => moved[1].val = Str(t)

\* Position k is the start of the last callback of a frame's log
LastCallback(log, k) == \A m \in (k+1)..Len(log) : log[m].ev \notin CallbackKinds

\* C11: updateConfig queues exactly one callback when the merged selection is
\* not the sentinel and none when it is; in the frame that callback performs
\* highlight, scroll and tooltip for one target: the selection itself when it
\* is a single ID, the first listed ID with a detail panel when it is a list;
\* when no listed ID has a detail panel it performs nothing.  The panel left
\* outlined by the last callback of a frame is that target's, and so is the
\* tooltip that callback shows.
C11_ConfigFollowUpTarget ==
    [][ /\ lastCall'.op = "updateConfig" =>
              /\ NoEffects(lastCall'.log)
              /\ pending' = IF NotSentinel(Selection')
                            THEN Append(pending, FollowUp("updateConfig", Selection'))
                            ELSE pending
        /\ lastCall'.op = "animationFrame" =>
              \A k \in 1..Len(lastCall'.log) :
                  lastCall'.log[k].ev = "updateConfig" =>
                      LET v == lastCall'.log[k].val
                          t == TargetOf(v)
                      IN  IF t = "" THEN ActsNot(lastCall'.log, k)
                          ELSE /\ ActsForTarget(lastCall'.log, k, v, t)
                               /\ LastCallback(lastCall'.log, k) =>
                                    /\ highlighted' \subseteq {t}
                                    /\ \A m \in (k+1)..Len(lastCall'.log) :
                                          lastCall'.log[m].ev = "tooltipShown" =>
                                              /\ lastCall'.log[m].val = Str(t)
                                              /\ tooltip'.present
                                              /\ tooltip'.groupID = t
                                    /\ (v.kind = "array" => highlighted' = {t})
      ]_vars

\* A frame ran the callback of an updateConfig whose merged selection was the
\* list 10, 120 on data where only 120 has a detail panel: the panel of 120 is
\* outlined and the tooltip of 120 is shown.
C11_Witness ==
    /\ lastCall.op = "animationFrame"
    /\ CallbacksRun(lastCall.log) = <<FollowUp("updateConfig", Arr(<<"10", "120">>))>>
    /\ PanelIDs(sitePlots) = {"120"}
    /\ highlighted = {"120"}
    /\ tooltip.present /\ tooltip.groupID = "120"
    /\ CountEv(lastCall.log, "scrollIntoView") = 1

\* The entity IDs of the current data: every GroupID of the label, flagged
\* and unflagged tables
EntityIDs ==
    {df_label_sites(rawData)[i].GroupID : i \in 1..Len(df_label_sites(rawData))}
    \cup {df_mean_group_flagged(rawData)[i].GroupID : i \in 1..Len(df_mean_group_flagged(rawData))}
    \cup {df_mean_group_not_flagged(rawData)[i].GroupID :
            i \in 1..Len(df_mean_group_not_flagged(rawData))}

\* A selection value that matches no entity of the current data: an unknown
\* ID, a list without a known ID, or a value that is neither string nor list
MatchesNoEntity(v) ==
    \/ v.kind \notin {"string", "array"}
    \/ SelectionIDs(v) \cap EntityIDs = {}

\* C12 as stated: when the value passed to updateSelectedGroupIDs or
\* updateConfig matches no entity, the call does not throw and performs no
\* effect, and the frame that runs its callback does not throw, leaves no
\* panel outlined, scrolls nothing into view and shows no tooltip.
C12_UnmatchedSelectionIsInert ==
    /\ (lastCall.op \in {"updateSelectedGroupIDs", "updateConfig"}
            /\ MatchesNoEntity(lastCall.arg)) =>
          /\ ~lastCall.threw
          /\ NoEffects(lastCall.log)
          /\ highlighted = {} /\ ~tooltip.present
    /\ (lastCall.op = "animationFrame"
            /\ \A k \in 1..Len(lastCall.log) :
                  lastCall.log[k].ev \in CallbackKinds => MatchesNoEntity(lastCall.log[k].val)) =>
          /\ ~lastCall.threw
          /\ highlighted = {}
          /\ CountEv(lastCall.log, "scrollIntoView") = 0
          /\ ~tooltip.present

\* The countries that occur in the group metadata
KnownCountries ==
    IF groupMetadata.isNull THEN {}
    ELSE {groupMetadata.entries[i].attrs.Country :
            i \in {j \in 1..Len(groupMetadata.entries) :
                        "Country" \in DOMAIN groupMetadata.entries[j].attrs}}

\* C13 as stated: selectCountry(c) never throws; when c is not in the group
\* metadata, when there is no group metadata, and when the country selector
\* is disabled, the selection becomes empty and nothing is highlighted,
\* scrolled or shown.
C13_SelectCountryNeverThrows ==
    lastCall.op = "selectCountry" =>
        /\ ~lastCall.threw
        /\ (lastCall.arg.str # "None"
                /\ (lastCall.arg.str \notin KnownCountries \/ ~dataConfig.showCountrySelector)) =>
              /\ SelectionIDs(Selection) = {}
              /\ NoEffects(lastCall.log)
              /\ highlighted = {} /\ ~tooltip.present

\* C14 as stated: selectSite(id) dispatches exactly one site-selected event
\* carrying id, selectCountry(c) exactly one country-selected event carrying
\* c and the selection just set; each is dispatched after the state update
\* and the render of the call, and no callback has run by then.
C14_OneEventAfterRender ==
    /\ lastCall.op = "selectSite" =>
          /\ lastCall.events = <<CustomEvent("site-selected", lastCall.arg, Undefined, Undefined)>>
          /\ Selection = lastCall.arg
          /\ CountEv(lastCall.log, "site-selected") = 1
          /\ FirstEv(lastCall.log, "set") < FirstEv(lastCall.log, "render")
          /\ FirstEv(lastCall.log, "render") < FirstEv(lastCall.log, "site-selected")
    /\ lastCall.op = "selectCountry" =>
          /\ lastCall.events = <<CustomEvent("country-selected", Undefined, lastCall.arg, Selection)>>
          /\ selectedCountry = lastCall.arg.str
          /\ CountEv(lastCall.log, "country-selected") = 1
          /\ FirstEv(lastCall.log, "set") < FirstEv(lastCall.log, "render")
          /\ FirstEv(lastCall.log, "render") < FirstEv(lastCall.log, "country-selected")
    /\ lastCall.op \in {"selectSite", "selectCountry"} =>
          /\ \A k \in 1..Len(lastCall.log) : lastCall.log[k].ev \notin CallbackKinds
          /\ NoEffects(lastCall.log)
    /\ lastCall.op \notin {"selectSite", "selectCountry"} => lastCall.events = <<>>

\* The same for the calls of selectCountry that return
C14_OneEventUnlessThrown ==
    (lastCall.op = "selectCountry" /\ lastCall.threw) \/ C14_OneEventAfterRender

\* C15: once destroy has been called the container is empty and every
\* chart-engine handle the instance ever created, the overview handle and
\* the panel handles of every render, has been torn down exactly once; when
\* destroy returns the tooltip node is gone.
C15_DestroyTearsDownOnce ==
    /\ container = "empty" =>
          /\ chartInstance.torn = 1
          /\ sitePlotCharts = <<>>
          /\ released \subseteq {1}
    /\ lastCall.op = "destroy" =>
          /\ container = "empty"
          /\ ~tooltip.present
    /\ container # "empty" =>
          /\ chartInstance.torn = 0
          /\ Counts(sitePlotCharts) \subseteq {0}
          /\ Len(sitePlotCharts) = Len(sitePlots)

\* destroy was called after several renders, with detail panels and a shown
\* tooltip: it tore down the overview handle and two or more panel handles
\* and removed the tooltip node.
C15_Witness ==
    /\ lastCall.op = "destroy"
    /\ container = "empty"
    /\ released = {1}
    /\ CountEv(lastCall.log, "teardown") >= 3
    /\ CountEv(lastCall.log, "removeTooltip") = 1
    /\ ~tooltip.present

\* C16: when updateSelectedGroupIDs(v) is called right after
\* updateSelectedGroupIDs(v), the second call leaves the selection, the
\* series of the overview chart with their colour, opacity, border width and
\* draw order, and the detail panels exactly as the first call left them.
C16_UpdateSelectionIdempotent ==
    [][ (lastCall'.op = "updateSelectedGroupIDs" /\ lastCall'.again) =>
            /\ Selection' = Selection
            /\ Selection' = lastCall'.arg
            /\ chartDatasets' = chartDatasets
            /\ sitePlots' = sitePlots
            /\ layout' = layout
            /\ siteSelector' = siteSelector
      ]_vars

\* updateSelectedGroupIDs('120') was called twice in a row: 120 is selected,
\* its series is drawn selected and another series is dimmed.
C16_Witness ==
    /\ lastCall.op = "updateSelectedGroupIDs" /\ lastCall.again
    /\ lastCall.arg = Str("120")
    /\ Selection = Str("120")
    /\ \E i \in EntitySeries(chartDatasets) :
          chartDatasets[i].groupID = "120" /\ chartDatasets[i].borderWidth = 30
    /\ \E i \in EntitySeries(chartDatasets) : chartDatasets[i].borderColor.a = 2

\* The data of the chart has no row: every table is empty or missing
NoRows ==
    \A name \in {"df_mean_study", "df_mean_group_flagged", "df_mean_group_not_flagged",
                 "df_label_sites", "df_visit"} :
        name \in DOMAIN rawData => rawData[name] = <<>>

\* C17: constructing the chart when every table is empty, when the data
\* object is missing and when it has none of the tables does not throw and
\* leaves a live overview handle with zero series and no detail panel.
C17_EmptyDataConstructs ==
    (lastCall.op = "constructor" /\ NoRows) =>
        /\ ~lastCall.threw
        /\ container = "rendered"
        /\ chartInstance.torn = 0
        /\ chartDatasets = <<>>
        /\ sitePlots = <<>> /\ sitePlotCharts = <<>>
        /\ ~layout.rightPanel

\* The chart was constructed from a data object without any table.
C17_Witness ==
    /\ lastCall.op = "constructor" /\ ~lastCall.threw
    /\ DOMAIN rawData = {}
    /\ ~groupMetadata.isNull
    /\ chartInstance.torn = 0
    /\ chartDatasets = <<>> /\ sitePlots = <<>>

\* C18 as stated: whatever fields the rows of the tables lack, the
\* constructor completes without throwing, and the detail panels of the
\* flagged label rows are there when the detail-panel layer is shown.
C18_AbsentFieldsConstruct ==
    lastCall.op = "constructor" =>
        /\ ~lastCall.threw
        /\ layout.rightPanel =>
              Len(sitePlots) = Len(SelectSeq(df_label_sites(rawData), IsFlaggedLabel))

\* The flag status of a label row as a number: 0 when it is absent
FlagNumber(label) == IF label.Flag.kind \in {"number", "string"} THEN label.Flag.n ELSE 0

\* C19 as stated: when the detail-panel layer is shown and rendered, each
\* entity with a non-zero flag status has exactly one panel and an entity
\* whose flag status is zero, also as the string "0" or absent, has none.
C19_PanelsForNonZeroFlags ==
    (layout.rightPanel /\ Constructed /\ container = "rendered") =>
        \A i \in 1..Len(df_label_sites(rawData)) :
            LET label == df_label_sites(rawData)[i]
                panels == {p \in 1..Len(sitePlots) : sitePlots[p].groupID = label.GroupID}
            IN  Cardinality(panels) = IF FlagNumber(label) # 0 THEN 1 ELSE 0

\* The target of the last highlight of a frame's log
LastHighlight(log) ==
    log[CHOOSE k \in 1..Len(log) :
            log[k].ev = "highlight" /\ \A m \in (k+1)..Len(log) : log[m].ev # "highlight"].val

\* C20: at most one detail panel carries the highlight outline, and it is a
\* panel of the current render; after a frame the outlined panel is the one
\* of the last highlight's target when that target has a panel, and no panel
\* is outlined when it has none.
C20_AtMostOneHighlighted ==
    /\ Cardinality(highlighted) <= 1
    /\ \A g \in highlighted : \E p \in 1..Len(sitePlots) : sitePlots[p].groupID = g
    /\ (lastCall.op = "animationFrame" /\ CountEv(lastCall.log, "highlight") > 0) =>
          LET id == LastHighlight(lastCall.log).str
          IN  highlighted = IF layout.rightPanel
                               /\ \E p \in 1..Len(sitePlots) : sitePlots[p].groupID = id
                            THEN {id} ELSE {}

\* One frame ran the callbacks of selectSite('120') and selectSite('10'), both
\* sites with a panel: only the panel of 10 is outlined.
C20_Witness ==
    /\ lastCall.op = "animationFrame"
    /\ CallbacksRun(lastCall.log) =
          <<FollowUp("selectSite", Str("120")), FollowUp("selectSite", Str("10"))>>
    /\ {"120", "10"} \subseteq PanelIDs(sitePlots)
    /\ highlighted = {"10"}

\* The target of scrollToSitePlot(v): v itself when it is a single ID, the
\* first listed ID with a detail panel when it is a list ('' when none has)
ScrollTarget(v) ==
    IF v.kind = "array" THEN FirstWithPlot(v.arr, sitePlots) ELSE v.str

\* The panel scrollToSitePlot(v) has to bring into view: '' for the sentinel
\* and the empty values, without a detail-panel layer, and when the target
\* has no panel
PanelToScroll(v) ==
    IF ~Truthy(v) \/ v = NoneVal \/ ~layout.rightPanel THEN ""
    ELSE IF ScrollTarget(v) \in PanelIDs(sitePlots) THEN ScrollTarget(v) ELSE ""

\* C21: scrollToSitePlot(v) never throws and changes no state; when the
\* target of v has a detail panel it scrolls exactly that panel into view;
\* for the sentinel, without a detail-panel layer and when the target has no
\* panel it scrolls nothing.
C21_ScrollExactlyTargetPanel ==
    [][ lastCall'.op = "scrollToSitePlot" =>
            LET v == lastCall'.arg
                moved == SelectSeq(lastCall'.log, LAMBDA e : e.ev = "scrollIntoView")
            IN  /\ ~lastCall'.threw
                /\ highlighted' = highlighted /\ tooltip' = tooltip
                /\ pending' = pending /\ dataConfig' = dataConfig
                /\ moved = IF PanelToScroll(v) = "" THEN <<>>
                           ELSE <<Ev("scrollIntoView", Str(PanelToScroll(v)))>>
      ]_vars

\* The numeric score of entity g as the claim reads it from its label row:
\* the number the Score field holds or spells, 0 when the field is absent or
\* is text
NumericScore(g) ==
    LET labels == df_label_sites(rawData)
        row == labels[CHOOSE i \in 1..Len(labels) : labels[i].GroupID = g]
    IN  IF row.Score.kind = "number" \/ row.Score.kind = "string" THEN row.Score.n ELSE 0

\* C22: the detail panels stand in non-decreasing order of their entities'
\* numeric scores, an absent or unparseable score counting as 0.
C22_PanelsAscendingByScore ==
    \A i, j \in 1..Len(sitePlots) :
        i < j => NumericScore(sitePlots[i].groupID) <= NumericScore(sitePlots[j].groupID)

\* Three panels after a re-render: the label rows come as 10 (score '4', a
\* string), 120 (no score), 33 (score -3); the panels stand as 33, 120, 10.
C22_Witness ==
    /\ rawData = DataScores(NumStr(4), Absent, Num(-3))
    /\ lastCall.op = "selectSite"
    /\ [i \in 1..Len(sitePlots) |-> sitePlots[i].groupID] = <<"33", "120", "10">>

\* What the constructor handed to the indexer, and the level it asked for
MetadataInput == lastCall.log[2].val
AskedLevel == IF dataConfig.GroupLevel = "" THEN "Site" ELSE dataConfig.GroupLevel

\* The rows are absent, not a list, or an empty list
NoMetadataRows == MetadataInput.kind # "array" \/ MetadataInput.rows = <<>>
\* There are rows and none of them is at the level asked for
LevelMissing ==
    /\ ~NoMetadataRows
    /\ \A i \in 1..Len(MetadataInput.rows) : MetadataInput.rows[i].GroupLevel # AskedLevel

\* C23: the indexer does not throw; it returns null when the rows are absent,
\* not a list or empty and when the level asked for does not occur in the
\* rows; it logs one warning in the last case and none in any other.
C23_IndexerNullAndWarning ==
    lastCall.op = "constructor" =>
        /\ ~lastCall.threw
        /\ (NoMetadataRows \/ LevelMissing) => groupMetadata.isNull
        /\ CountEv(lastCall.log, "warn") = IF LevelMissing THEN 1 ELSE 0

\* A chart was constructed with two rows of the levels Site and Country and
\* the level Study: the index is null and the warning names Study.
C23_Witness ==
    /\ lastCall.op = "constructor"
    /\ MetadataInput.kind = "array" /\ Len(MetadataInput.rows) = 2
    /\ {MetadataInput.rows[i].GroupLevel : i \in 1..2} = {"Site", "Country"}
    /\ groupMetadata.isNull
    /\ lastCall.log[3] = Ev("warn", Str("Study"))

\* The (Param, Value) pairs of the rows of entity id at a level
AttrPairs(rows, level, id) ==
    {<<rows[i].Param, rows[i].Value>> :
        i \in {k \in 1..Len(rows) : rows[k].GroupLevel = level /\ rows[k].GroupID = id}}

\* The (key, value) pairs of the attribute object looked up for id
LookupPairs(gm, id) ==
    LET got == MetadataGet(gm, id)
    IN  IF got.found THEN {<<p, got.attrs[p]>> : p \in DOMAIN got.attrs} ELSE {}

\* Every reordering of a list of rows
Reorderings(rows) ==
    {[i \in 1..Len(rows) |-> rows[f[i]]] :
        f \in {g \in [1..Len(rows) -> 1..Len(rows)] :
                    \A i, j \in 1..Len(rows) : i # j => g[i] # g[j]}}

\* No two rows of entity id at a level give one attribute two values
OneValuePerAttribute(rows, level, id) ==
    \A a, b \in AttrPairs(rows, level, id) : a[1] = b[1] => a[2] = b[2]

\* C24 as stated: for every entity with rows at the level asked for, the
\* lookup returns exactly the attributes of those rows, whatever the order of
\* the rows.
C24_LookupIsRowsAnyOrder ==
    (lastCall.op = "constructor" /\ MetadataInput.kind = "array") =>
        \A i \in 1..Len(MetadataInput.rows) :
            LET rows == MetadataInput.rows
                id == rows[i].GroupID
            IN  rows[i].GroupLevel = AskedLevel =>
                    /\ LookupPairs(groupMetadata, id) = AttrPairs(rows, AskedLevel, id)
                    /\ \A other \in Reorderings(rows) :
                          LookupPairs(structureGroupMetadata(Rows(other), dataConfig).value, id)
                              = LookupPairs(groupMetadata, id)

\* C24 amended: the lookup returns attributes of the rows of that entity and
\* level only, one value for each of their attributes; when no attribute has
\* two different values in those rows it returns exactly their attributes,
\* whatever the order of the rows.
C24_LookupIsRowsWithoutConflict ==
    (lastCall.op = "constructor" /\ MetadataInput.kind = "array") =>
        \A i \in 1..Len(MetadataInput.rows) :
            LET rows == MetadataInput.rows
                id == rows[i].GroupID
            IN  rows[i].GroupLevel = AskedLevel =>
                    /\ LookupPairs(groupMetadata, id) \subseteq AttrPairs(rows, AskedLevel, id)
                    /\ {a[1] : a \in LookupPairs(groupMetadata, id)}
                          = {a[1] : a \in AttrPairs(rows, AskedLevel, id)}
                    /\ OneValuePerAttribute(rows, AskedLevel, id) =>
                          /\ LookupPairs(groupMetadata, id) = AttrPairs(rows, AskedLevel, id)
                          /\ \A other \in Reorderings(rows) :
                                LookupPairs(structureGroupMetadata(Rows(other), dataConfig).value, id)
                                    = LookupPairs(groupMetadata, id)

\* A chart was constructed at the level Site with three rows: two attributes
\* of site 120 and, between them, a row of entity 120 at the level Country;
\* the lookup of 120 has the two Site attributes and nothing else.
C24_Witness ==
    /\ lastCall.op = "constructor"
    /\ MetadataInput = Rows(<<MetaRow("120", "Region", "NA", "Site"),
                              MetaRow("120", "Region", "EU", "Country"),
                              MetaRow("120", "Country", "USA", "Site")>>)
    /\ AskedLevel = "Site"
    /\ LookupPairs(groupMetadata, "120") = {<<"Region", "NA">>, <<"Country", "USA">>}

\* Every candidate is within half a data unit of the first on both axes
\* (coordinates are in tenths)
AllWithinHalfUnit(items) ==
    \A i \in 1..Len(items) :
        /\ items[i].parsed.x - items[1].parsed.x \in -5..5
        /\ items[i].parsed.y - items[1].parsed.y \in -5..5

\* C25: with two or more candidates overlap detection returns overlapping
\* exactly when every candidate is within 0.5 of the first on both axes, 0.5
\* itself included; with no or one candidate it returns non-overlapping.
C25_OverlapWithinHalfUnit ==
    lastCall.op = "detectOverlappingPoints" =>
          LET items == lastCall.log[1].val.dataPoints
          IN  (lastCall.log[2].val = Str("true"))
                  <=> (Len(items) >= 2 /\ AllWithinHalfUnit(items))

\* Overlap detection was called with two candidates that are exactly 0.5 apart
\* on both axes and returned overlapping.
C25_Witness ==
    /\ lastCall.op = "detectOverlappingPoints"
    /\ Len(lastCall.log[1].val.dataPoints) = 2
    /\ lastCall.log[1].val.dataPoints[2].parsed = [x |-> 15, y |-> 5]
    /\ lastCall.log[1].val.dataPoints[1].parsed = [x |-> 10, y |-> 10]
    /\ lastCall.log[2].val = Str("true")

\* The event of the last hover and the series of its i-th candidate
HoverEvent == lastCall.log[1].val
HoverSeries(i) == DatasetsOf(HoverEvent.chart)[HoverEvent.dataPoints[i].datasetIndex]
\* A hover that shows the tooltip: it is visible and has a candidate
HoverShown ==
    /\ lastCall.op = "hover"
    /\ HoverEvent.opacity # 0
    /\ HoverEvent.dataPoints # <<>>
\* The series of an entity: neither the study series nor a sub-entity trajectory
IsEntitySeries(d) == d.siteType # "study" /\ d.dataType # "patient"
HasLabelRow(g) ==
    \E i \in 1..Len(df_label_sites(rawData)) : df_label_sites(rawData)[i].GroupID = g
\* The swatch and the title of a block are those of series d
TitledFor(block, d) ==
    /\ block.title.swatch = d.borderColor
    /\ block.title.title # <<>>
    /\ block.title.title[1] = (IF d.dataType = "patient" THEN "Patient"
                               ELSE IF d.siteType = "study" THEN "Study Mean" ELSE "Site")
\* Exactly one full block, for the first candidate, with the extended block
\* for an entity series only
OneFullBlock ==
    /\ Len(tooltip.blocks) = 1
    /\ ~tooltip.blocks[1].compact
    /\ TitledFor(tooltip.blocks[1], HoverSeries(1))
    /\ Len(tooltip.blocks[1].metrics) >= 2
    /\ tooltip.blocks[1].extra # <<>> => IsEntitySeries(HoverSeries(1))
\* The hover had two or more overlapping candidates
HoverOverlaps ==
    Len(HoverEvent.dataPoints) >= 2 /\ AllWithinHalfUnit(HoverEvent.dataPoints)

\* C26, as stated: two or more overlapping candidates give one compact block
\* per candidate with swatch, title and the numerator and denominator lines
\* only and no extended block; otherwise there is exactly one full block, for
\* the first candidate, with the extended block only for an entity series.
C26_CompactNumeratorDenominatorOnly ==
    HoverShown =>
        IF HoverOverlaps
        THEN /\ Len(tooltip.blocks) = Len(HoverEvent.dataPoints)
             /\ \A i \in 1..Len(tooltip.blocks) :
                   /\ tooltip.blocks[i].compact
                   /\ TitledFor(tooltip.blocks[i], HoverSeries(i))
                   /\ tooltip.blocks[i].metrics = <<"Numerator", "Denominator">>
                   /\ tooltip.blocks[i].extra = <<>>
        ELSE OneFullBlock

\* The lines of the basic metrics: numerator and denominator, then any of
\* score, delta and flag, these only for an entity series with a label row
BasicMetricsOf(metrics, d) ==
    /\ Len(metrics) >= 2
    /\ metrics[1] = "Numerator" /\ metrics[2] = "Denominator"
    /\ \A k \in 3..Len(metrics) : metrics[k] \in {"Score", "Delta", "Flag"}
    /\ Len(metrics) > 2 => IsEntitySeries(d) /\ HasLabelRow(d.groupID)

\* C26, amended: the compact blocks carry the basic metrics (numerator and
\* denominator, and for an entity series with a label row its score, delta
\* and flag lines) and no extended block; otherwise exactly one full block.
C26_CompactBasicMetricsNoExtra ==
    HoverShown =>
        IF HoverOverlaps
        THEN /\ Len(tooltip.blocks) = Len(HoverEvent.dataPoints)
             /\ \A i \in 1..Len(tooltip.blocks) :
                   /\ tooltip.blocks[i].compact
                   /\ TitledFor(tooltip.blocks[i], HoverSeries(i))
                   /\ BasicMetricsOf(tooltip.blocks[i].metrics, HoverSeries(i))
                   /\ tooltip.blocks[i].extra = <<>>
        ELSE OneFullBlock

\* A hover over two overlapping candidates, the first of an entity series with
\* metadata to print and a score, the second of the study series, left two
\* compact blocks without an extended block.
C26_Witness ==
    /\ HoverShown
    /\ HoverOverlaps
    /\ Len(HoverEvent.dataPoints) = 2
    /\ IsEntitySeries(HoverSeries(1))
    /\ buildExtraInfoHtml(HoverSeries(1).groupID) # <<>>
    /\ HoverSeries(2).siteType = "study"
    /\ Len(tooltip.blocks) = 2
    /\ tooltip.blocks[1].compact /\ tooltip.blocks[1].extra = <<>>
    /\ \E k \in 1..Len(tooltip.blocks[1].metrics) : tooltip.blocks[1].metrics[k] = "Score"

\* The width of the panel that hosts the chart of the last hover
HostPanelWidth ==
    IF HoverEvent.chart = 0 THEN CanvasWidth(layout) ELSE PanelCanvasWidth

\* C27: the tooltip of a hover is placed in the panel hosting the chart that
\* raised the event, 10 to the right of the hit point, or, when its right edge
\* would pass that panel's width, to the left of the hit point (hit x minus
\* tooltip width minus 10); its top is never negative; for a hit point inside
\* the host panel its right edge does not pass the host panel's right edge.
C27_PlacedWithinHostPanel ==
    HoverShown =>
        LET width == OffsetWidth(tooltip.blocks)
        IN  /\ tooltip.panel = HoverEvent.chart
            /\ tooltip.left =
                  (IF HoverEvent.caretX + 10 + width > HostPanelWidth
                   THEN HoverEvent.caretX - width - 10
                   ELSE HoverEvent.caretX + 10)
            /\ tooltip.top >= 0
            /\ HoverEvent.caretX <= HostPanelWidth => tooltip.left + width <= HostPanelWidth

\* C28: once the tooltip node exists it stays in the display tree through
\* every later step but destroy: tooltip updates reuse it, re-renders keep
\* it, and an inactive tooltip is hidden with opacity 0, not removed.
C28_NodeKeptUntilDestroy ==
    [][(tooltip.present /\ lastCall'.op # "destroy") =>
            /\ tooltip'.present
            /\ (lastCall'.op = "hover"
                    /\ (lastCall'.log[1].val.opacity = 0 \/ lastCall'.log[1].val.dataPoints = <<>>))
                 => tooltip'.opacity = 0]_vars

\* The configuration the constructor was given and its metric object
GivenConfig == lastCall.log[1].val.config
GivenMetric == IF Has(GivenConfig, "metric") THEN GivenConfig.metric ELSE EmptyObject
\* An object gives a field when it has it with a non-empty value
Gives(obj, k) == Has(obj, k) /\ obj[k] # ""

\* C29: after construction every KRI field of the configuration is the metric
\* object's value when the metric object gives the field, otherwise the
\* individual configuration field when given, otherwise the default (or the
\* empty value that was given); the metric object wins over the individual
\* field.
C29_MetricObjectFirst ==
    lastCall.op = "constructor" =>
        \A k \in KriFields :
            IF Gives(GivenMetric, k) THEN dataConfig[k] = GivenMetric[k]
            ELSE IF Gives(GivenConfig, k) THEN dataConfig[k] = GivenConfig[k]
            ELSE dataConfig[k] \in {KriDefaults[k], ""}

\* C30: on a live instance the container carries the widget class and holds
\* exactly one overview canvas, the configuration of the instance shows the
\* selection that was set last, and every selector that this configuration
\* enables is present.
C30_DiscoveryContract ==
    Live =>
        /\ "gsm-widget" \in layout.classes
        /\ layout.canvases = 1
        /\ lastCall.op = "updateSelectedGroupIDs" => dataConfig.selectedGroupIDs = lastCall.arg
        /\ dataConfig.showGroupSelector => siteSelector.present
        /\ dataConfig.showCountrySelector => countrySelector.present

\* The selection of the SiteList and the options of its dropdown
ListSelection == siteList.dataConfig.selectedGroupIDs
ListOptions == {"None"} \cup {siteList.items[i].groupID : i \in 1..Len(siteList.items)}
\* Exactly the items whose group ID is the selection are styled as selected
ListItemsFollowSelection ==
    \A i \in 1..Len(siteList.items) :
        siteList.items[i].selected <=> (ListSelection = Str(siteList.items[i].groupID))

\* C31, as stated: in a rendered SiteList exactly the items whose group ID is
\* the selection are styled as selected and the dropdown shows the selection.
C31_ListAndDropdownShowSelection ==
    (siteList.present /\ siteList.rendered) =>
        /\ ListItemsFollowSelection
        /\ siteList.selector.present => siteList.selector.value = ListSelection.str

\* C31, amended: ... and the dropdown shows the selection when the selection
\* is None or the group ID of an item, and shows nothing otherwise.
C31_DropdownShowsListedSelection ==
    (siteList.present /\ siteList.rendered) =>
        /\ ListItemsFollowSelection
        /\ siteList.selector.present =>
              siteList.selector.value =
                  (IF ListSelection.str \in ListOptions THEN ListSelection.str ELSE "")

\* After a click on the item of site 120 in a list of unique IDs that item
\* alone is styled as selected and the dropdown shows 120.
C31_Witness ==
    /\ siteList.present /\ siteList.rendered
    /\ siteList.op = "click" /\ siteList.arg = Str("120")
    /\ Len(siteList.items) = 2
    /\ {i \in 1..2 : siteList.items[i].selected} = {2}
    /\ siteList.selector = Selector("120")

\* Every waiting callback is that of a selectSite of a site with a detail panel
AllEntitySelections(queue) ==
    /\ layout.rightPanel
    /\ \A i \in 1..Len(queue) :
          /\ queue[i].kind = "selectSite"
          /\ queue[i].groupID.kind = "string"
          /\ queue[i].groupID.str \in PanelIDs(sitePlots)

\* C32: selectSite puts its callback behind those that wait, and a frame runs
\* the waiting callbacks in that order; when they are callbacks of selections
\* of sites with detail panels, the frame leaves the panel of the last
\* selection highlighted and the tooltip on the last selection.
C32_LastSelectionWins ==
    [][/\ lastCall'.op = "selectSite" =>
              pending' = Append(pending, FollowUp("selectSite", lastCall'.arg))
       /\ (lastCall'.op = "animationFrame" /\ pending # <<>>) =>
              /\ CallbacksRun(lastCall'.log) = pending
              /\ AllEntitySelections(pending) =>
                    /\ highlighted' = {pending[Len(pending)].groupID.str}
                    /\ tooltip'.present
                    /\ tooltip'.groupID = pending[Len(pending)].groupID.str]_vars

\* Site 120 and then site 10 were selected before a frame; the frame ran the
\* callback of 120 and then that of 10 and left panel and tooltip on 10.
C32_Witness ==
    /\ lastCall.op = "animationFrame"
    /\ CallbacksRun(lastCall.log) =
          <<FollowUp("selectSite", Str("120")), FollowUp("selectSite", Str("10"))>>
    /\ {"120", "10"} \subseteq PanelIDs(sitePlots)
    /\ highlighted = {"10"}
    /\ tooltip.present /\ tooltip.groupID = "10"
    /\ dataConfig.selectedGroupIDs = Str("10")

\* The tooltip is on the last point of a series of the overview chart as it is
TooltipOnCurrentSeries(tip) ==
    \E i \in 1..Len(chartDatasets) :
        /\ chartDatasets[i].groupID = tip.groupID
        /\ chartDatasets[i].data # <<>>
        /\ \E j \in 1..Len(chartDatasets[i].data) :
              /\ Tenths(chartDatasets[i].data[j].x) = tip.x
              /\ Tenths(chartDatasets[i].data[j].y) = tip.y

\* C33: a handler asks for its callback only after its render; a frame runs
\* callbacks that waited, on the panels, the series and the handles of the
\* latest render: no handle is torn down, the highlighted panel is a panel of
\* this render and the tooltip is on a series of its overview chart.
C33_FollowUpSeesLatestRender ==
    [][/\ (lastCall'.op \in {"selectSite", "updateSelectedGroupIDs", "updateConfig"}
             /\ FirstEv(lastCall'.log, "raf") > 0) =>
              /\ FirstEv(lastCall'.log, "render") > 0
              /\ FirstEv(lastCall'.log, "render") < FirstEv(lastCall'.log, "raf")
       /\ lastCall'.op = "animationFrame" =>
              /\ CallbacksRun(lastCall'.log) = pending
              /\ chartInstance.torn = 0 /\ chartInstance' = chartInstance
              /\ \A i \in 1..Len(sitePlotCharts) : sitePlotCharts[i].torn = 0
              /\ sitePlotCharts' = sitePlotCharts /\ sitePlots' = sitePlots
              /\ chartDatasets' = chartDatasets
              /\ highlighted' \subseteq PanelIDs(sitePlots)
              /\ (tooltip'.present /\ tooltip'.opacity = 1) => TooltipOnCurrentSeries(tooltip')
              /\ ~lastCall'.threw]_vars

\* Site 120 was selected and then, before a frame, site 10: the callback of
\* 120 ran after the render of the selection of 10 and highlighted, in that
\* render, the panel of 120 before the callback of 10 took over.
C33_Witness ==
    /\ lastCall.op = "animationFrame"
    /\ CallbacksRun(lastCall.log) =
          <<FollowUp("selectSite", Str("120")), FollowUp("selectSite", Str("10"))>>
    /\ dataConfig.selectedGroupIDs = Str("10")
    /\ CountEv(lastCall.log, "highlight") = 2
    /\ chartInstance.torn = 0
    /\ released # {}

\* C34: while no follow-up waits, a highlighted panel and a shown synthesized
\* tooltip belong to an entity of the current selection, nothing is
\* highlighted while the selection is None, and a country selection asks for
\* no follow-up and leaves nothing highlighted.
C34_EffectsWithinSelection ==
    /\ pending = <<>> =>
          /\ highlighted \subseteq SelectionIDs(Selection)
          /\ (tooltip.present /\ tooltip.opacity = 1) =>
                tooltip.groupID \in SelectionIDs(Selection)
          /\ Selection = NoneVal => highlighted = {}
    /\ lastCall.op = "selectCountry" =>
          /\ FirstEv(lastCall.log, "raf") = 0
          /\ ~lastCall.threw => highlighted = {}

\* C35: no handle is torn down twice, and a follow-up that runs after the
\* teardown of the overview handle reads no data from it and calls none of
\* its methods: it neither shows a tooltip through it nor fails on it.
C35_NoUseAfterTeardown ==
    /\ chartInstance.torn <= 1
    /\ \A i \in 1..Len(sitePlotCharts) : sitePlotCharts[i].torn <= 1
    /\ \A n \in released : n <= 1
    /\ (lastCall.op = "animationFrame" /\ chartInstance.torn > 0) =>
          /\ ~lastCall.threw
          /\ CountEv(lastCall.log, "tooltipShown") = 0

\* C36: in every rendered state the handles that were created and not torn
\* down are the overview handle and one handle for each detail panel of the
\* current render; every handle an earlier render created was torn down,
\* once, when the next render began.
C36_NoHandleLeak ==
    container = "rendered" =>
        /\ chartInstance.torn = 0
        /\ Len(sitePlotCharts) = Len(sitePlots)
        /\ \A i \in 1..Len(sitePlotCharts) : sitePlotCharts[i].torn = 0
        /\ released \subseteq {1}

\* An entry point re-rendered a chart with detail panels: the handles of the
\* render before are torn down, the new ones are not.
C36_Witness ==
    /\ container = "rendered"
    /\ lastCall.op \in {"selectSite", "selectCountry", "updateSelectedGroupIDs", "updateConfig"}
    /\ ~lastCall.threw
    /\ Len(sitePlots) >= 1
    /\ Counts(sitePlotCharts) = {0}
    /\ released = {1}

\* The entry points that may change the selection state
EntryPoints == {"selectSite", "selectCountry", "updateSelectedGroupIDs", "updateConfig"}

\* C37: a step that changes the selection, the remembered country, the
\* configuration or the thresholds is a call of selectSite, selectCountry,
\* updateSelectedGroupIDs or updateConfig; a frame that runs follow-ups, a
\* hover event and destroy leave all four as they are.
C37_SelectionStateFrame ==
    [][/\ (\/ dataConfig' # dataConfig
           \/ selectedCountry' # selectedCountry
           \/ config' # config
           \/ thresholds' # thresholds) => lastCall'.op \in EntryPoints
       /\ lastCall'.op \in {"animationFrame", "hover", "destroy"} =>
              UNCHANGED <<dataConfig, selectedCountry, config, thresholds>>]_vars

\* destroy was called on a chart that showed the tooltip of the selected site
\* 120: the selection is still 120.
C37_Witness ==
    /\ lastCall.op = "destroy"
    /\ CountEv(lastCall.log, "removeTooltip") = 1
    /\ Selection = Str("120")
    /\ container = "empty"

\* What a dropdown shows: an entity or a country, or nothing of the kind
ShowsChoice(sel) == sel.present /\ sel.value \notin {"None", ""}

\* C38: the site dropdown and the country dropdown never both show a choice
\* other than None, and the country dropdown shows a country only while the
\* selection is the list of that country's sites.
C38_DropdownsExclusive ==
    /\ ~(ShowsChoice(siteSelector) /\ ShowsChoice(countrySelector))
    /\ ShowsChoice(countrySelector) =>
          Selection = SitesInCountry(countryToSites, countrySelector.value)

\* The events that announce a selection
SelectionEvents == {"site-selected", "country-selected"}

\* C39: updateConfig, updateSelectedGroupIDs and the callbacks of a frame
\* dispatch no event; a call that dispatched a site-selected or a
\* country-selected event is a call of selectSite or of selectCountry.
C39_UpdatesDispatchNothing ==
    /\ lastCall.op \in {"updateConfig", "updateSelectedGroupIDs", "animationFrame"} =>
          /\ lastCall.events = <<>>
          /\ \A k \in 1..Len(lastCall.log) : lastCall.log[k].ev \notin SelectionEvents
    /\ lastCall.events # <<>> =>
          /\ lastCall.op \in {"selectSite", "selectCountry"}
          /\ \A k \in 1..Len(lastCall.events) : lastCall.events[k].type \in SelectionEvents

\* The host pushed the selection of site 120 into the chart, as it would in
\* answer to a site-selected event: the chart re-rendered with it, asked for
\* its follow-up and dispatched nothing.
C39_Witness ==
    /\ lastCall.op = "updateSelectedGroupIDs"
    /\ lastCall.arg = Str("120")
    /\ ~lastCall.skip
    /\ Selection = Str("120")
    /\ pending = <<FollowUp("update", Str("120"))>>
    /\ lastCall.events = <<>>

\* b lists the elements of a in some order
IsPermutation(a, b) ==
    /\ Len(a) = Len(b)
    /\ \E f \in [1..Len(a) -> 1..Len(a)] :
          /\ \A i, j \in 1..Len(a) : f[i] = f[j] => i = j
          /\ \A i \in 1..Len(a) : b[i] = a[f[i]]

\* C40: when overlap detection is called on two or more candidates and then
\* on the same candidates in another order, it returns the same result.
C40_OverlapOrderIndependent ==
    [][(/\ lastCall.op = "detectOverlappingPoints"
        /\ lastCall'.op = "detectOverlappingPoints"
        /\ Len(lastCall.log[1].val.dataPoints) >= 2
        /\ IsPermutation(lastCall.log[1].val.dataPoints, lastCall'.log[1].val.dataPoints))
            => lastCall'.log[2].val = lastCall.log[2].val]_vars

====
